---- MODULE Spec2Model ----
(***************************************************************************)
(* A model of lib/RdfXmlParser.ts: the RDF/XML streaming parser as a state *)
(* machine over the tokenizer's events (opentag, text, closetag, doctype). *)
(*                                                                         *)
(* Strings are sequences of tokens, each token standing for a piece of the *)
(* string the code never looks into ("http://e/" is one token, a prefixed  *)
(* name p:l is the three tokens p, ":", l).  Concatenation is \o, the      *)
(* empty string is << >>, and null/undefined is the token sequence NULL.   *)
(***************************************************************************)
EXTENDS Integers, Sequences, FiniteSets, TLC

EMPTY == << >>
NULL == <<"<null>">>

\* JavaScript truthiness of a string-or-null value: neither null nor "".
Truthy(s) == s # NULL /\ s # EMPTY

\* a || b on strings.
OrElse(a, b) == IF Truthy(a) THEN a ELSE b

RDF == <<"http://www.w3.org/1999/02/22-rdf-syntax-ns#">>
XML == <<"http://www.w3.org/XML/1998/namespace">>

\* A namespace map {prefix: uri}; its keys are the domain.
NoBindings == [prefix \in {} |-> EMPTY]

Put(map, key, value) ==
  [k \in (DOMAIN map) \cup {key} |-> IF k = key THEN value ELSE map[k]]

Get(map, key) == IF key \in DOMAIN map THEN map[key] ELSE NULL

DEFAULT_NS == Put(NoBindings, <<"xml">>, XML)

FORBIDDEN_NODE_ELEMENTS ==
  { <<"RDF">>, <<"ID">>, <<"about">>, <<"bagID">>, <<"parseType">>,
    <<"resource">>, <<"nodeID">>, <<"li">>, <<"aboutEach">>,
    <<"aboutEachPrefix">> }

FORBIDDEN_PROPERTY_ELEMENTS ==
  { <<"Description">>, <<"RDF">>, <<"ID">>, <<"about">>, <<"bagID">>,
    <<"parseType">>, <<"resource">>, <<"nodeID">>, <<"aboutEach">>,
    <<"aboutEachPrefix">> }

(***************************************************************************)
(* Tokens.  A token that starts with "scheme:" makes the string that it    *)
(* begins match the head of IRI_REGEX; a token with a character IRI_REGEX  *)
(* excludes makes every string that holds it invalid.                      *)
(***************************************************************************)
SchemeTokens ==
  { RDF[1], XML[1], "http://b/", "http://c/", "http://e/", "http://d/",
    "http://g/" }

IllegalIriTokens == { "a b", " ", "<", ">", "=\"", "\"", "</" }

\* Tokens that end with "/": the merge of RFC 3986 keeps them as directory.
DirectoryTokens == { "http://b/", "http://c/", "http://e/", "http://d/", "sub/" }

\* Tokens NCNAME_MATCHER accepts as a whole name.
NcnameTokens == { "a", "b", "c", "n", "x", "r1" }

lowerCase(token) ==
  CASE token = "EN" -> "en"
    [] token = "Fr" -> "fr"
    [] OTHER -> token

toLowerCase(s) == [i \in 1..Len(s) |-> lowerCase(s[i])]

\* term.indexOf(c), 1-based; 0 when c does not occur.
indexOf(s, c) ==
  IF \E i \in 1..Len(s) : s[i] = c
  THEN CHOOSE i \in 1..Len(s) : s[i] = c /\ \A j \in 1..(i - 1) : s[j] # c
  ELSE 0

RECURSIVE join(_)
join(strings) ==
  IF strings = << >> THEN EMPTY ELSE Head(strings) \o join(Tail(strings))

\* A string with a scheme: value.indexOf(':') >= 0 in resolve, the head of
\* IRI_REGEX in isValidIri.
HasScheme(s) == s # EMPTY /\ s[1] \in SchemeTokens

isValidIri(iri) ==
  /\ HasScheme(iri)
  /\ \A i \in 1..Len(iri) : iri[i] \notin IllegalIriTokens

(***************************************************************************)
(* resolve(relativeIRI, baseIRI) of relative-to-absolute-iri.  The result  *)
(* is [thrown, value]: resolve throws when it needs a base and the base    *)
(* has no scheme.                                                          *)
(***************************************************************************)
WithoutFragment(baseIRI) ==
  IF indexOf(baseIRI, "#") > 1
  THEN SubSeq(baseIRI, 1, indexOf(baseIRI, "#") - 1)
  ELSE baseIRI

Directory(baseIRI) ==
  IF baseIRI[Len(baseIRI)] \in DirectoryTokens
  THEN baseIRI
  ELSE SubSeq(baseIRI, 1, Len(baseIRI) - 1)

\* baseIRI is the base without its fragment.
Resolved(relativeIRI, baseIRI) ==
  CASE relativeIRI = EMPTY ->
         IF HasScheme(baseIRI)
         THEN [thrown |-> FALSE, value |-> baseIRI]
         ELSE [thrown |-> TRUE, value |-> NULL]
    [] relativeIRI # EMPTY /\ relativeIRI[1] = "#" ->
         [thrown |-> FALSE, value |-> baseIRI \o relativeIRI]
    [] relativeIRI # EMPTY /\ relativeIRI[1] # "#" /\ baseIRI = EMPTY ->
         [thrown |-> FALSE, value |-> relativeIRI]
    [] relativeIRI # EMPTY /\ relativeIRI[1] # "#" /\ baseIRI # EMPTY
         /\ HasScheme(relativeIRI) ->
         [thrown |-> FALSE, value |-> relativeIRI]
    [] OTHER ->
         IF HasScheme(baseIRI)
         THEN [thrown |-> FALSE, value |-> Directory(baseIRI) \o relativeIRI]
         ELSE [thrown |-> TRUE, value |-> NULL]

resolve(relativeIRI, givenBase) ==
  Resolved(relativeIRI,
           WithoutFragment(IF givenBase = NULL THEN EMPTY ELSE givenBase))

(***************************************************************************)
(* RDF terms of the data factory.  A blank node minted by blankNode() has  *)
(* no label of the document; it is identified by the factory's counter.    *)
(***************************************************************************)
Term(termType, value, id, language, datatype) ==
  [termType |-> termType, value |-> value, id |-> id,
   language |-> language, datatype |-> datatype]

NullTerm == Term("null", NULL, 0, NULL, NULL)
namedNode(value) == Term("NamedNode", value, 0, NULL, NULL)
blankNode(label) == Term("BlankNode", label, 0, NULL, NULL)
mintedBlankNode(id) == Term("BlankNode", EMPTY, id, NULL, NULL)
factoryDefaultGraph == Term("DefaultGraph", EMPTY, 0, NULL, NULL)

\* literal(value, languageOrDatatype): a string is a language tag, a named
\* node a datatype, undefined neither.
literal(value, datatype, language) ==
  IF datatype # NullTerm
  THEN Term("Literal", value, 0, NULL, datatype.value)
  ELSE IF Truthy(language)
       THEN Term("Literal", value, 0, language, NULL)
       ELSE Term("Literal", value, 0, NULL, NULL)

quad(subject, predicate, object, graph) ==
  [subject |-> subject, predicate |-> predicate, object |-> object,
   graph |-> graph]

(***************************************************************************)
(* IActiveTag: a frame of activeTagStack.  An absent field is NULL,        *)
(* NullTerm, FALSE, 0 or "undefined".  childrenStringTags is a reference   *)
(* to an array of the heap (field arrays of the parser), 0 when absent:    *)
(* the frames of an XML literal's descendants share one array.             *)
(***************************************************************************)
NewActiveTag ==
  [ ns |-> << >>,
    subject |-> NullTerm,
    predicate |-> NullTerm,
    predicateEmitted |-> FALSE,
    predicateSubPredicates |-> << >>,
    predicateSubObjects |-> << >>,
    hadChildren |-> FALSE,
    text |-> NULL,
    language |-> NULL,
    datatype |-> NullTerm,
    childrenParseType |-> "undefined",
    baseIRI |-> NULL,
    listItemCounter |-> 0,
    reifiedStatementId |-> NullTerm,
    childrenTagsToString |-> FALSE,
    childrenStringTags |-> 0,
    childrenStringEmitClosingTag |-> NULL,
    childrenCollectionSubject |-> NullTerm,
    childrenCollectionPredicate |-> NullTerm ]

(***************************************************************************)
(* An RdfXmlParser instance: the options the constructor stores, the       *)
(* active-tag stack, the node-ID registry, the quads pushed downstream, the*)
(* arrays its frames refer to, the data factory's blank-node counter, the  *)
(* tokenizer's entity table, and the state of the stream: thrown while a   *)
(* handler's exception unwinds, errors reported on the error channel, and  *)
(* destroyed once _transform has handed an error to its callback.          *)
(***************************************************************************)
RdfXmlParser(baseIRI, defaultGraph, allowDuplicateRdfIds, firstBlankNode) ==
  [ baseIRI |-> IF Truthy(baseIRI) THEN baseIRI ELSE EMPTY,
    defaultGraph |-> IF defaultGraph # NullTerm THEN defaultGraph
                     ELSE factoryDefaultGraph,
    allowDuplicateRdfIds |-> allowDuplicateRdfIds,
    activeTagStack |-> << >>,
    nodeIds |-> {},
    pushed |-> << >>,
    arrays |-> << >>,
    blankNodeCounter |-> firstBlankNode,
    ENTITIES |-> NoBindings,
    thrown |-> FALSE,
    errors |-> 0,
    destroyed |-> FALSE ]

Depth(this) == Len(this.activeTagStack)
Top(this) == this.activeTagStack[Depth(this)]
SetTop(this, activeTag) ==
  [this EXCEPT !.activeTagStack[Depth(this)] = activeTag]
\* The frame below the top: parentTag of the handlers, which run after the
\* push of activeTag.
HasParent(this) == Depth(this) > 1
Parent(this) == this.activeTagStack[Depth(this) - 1]
SetParent(this, parentTag) ==
  [this EXCEPT !.activeTagStack[Depth(this) - 1] = parentTag]

Throw(this) == [this EXCEPT !.thrown = TRUE]

\* A factory that writes the counter into the label of the blank node.
CountedBlankNode(this) == blankNode(<<ToString(this.blankNodeCounter)>>)

\* dataFactory.blankNode() without a label.
NextBlankNode(this) == mintedBlankNode(this.blankNodeCounter)
Minted(this) == [this EXCEPT !.blankNodeCounter = @ + 1]

\* The result of a call that returns a named node or throws.
NodeResult(thrown, node) == [thrown |-> thrown, node |-> node]

uriToNamedNode(uri) ==
  IF isValidIri(uri)
  THEN NodeResult(FALSE, namedNode(uri))
  ELSE NodeResult(TRUE, NullTerm)

\* uriToNamedNode of what resolve returned, unless resolve threw.
ResolvedNode(resolved) ==
  IF resolved.thrown
  THEN NodeResult(TRUE, NullTerm)
  ELSE uriToNamedNode(resolved.value)

valueToUri(value, activeTag) == ResolvedNode(resolve(value, activeTag.baseIRI))

\* validateNcname throws unless this holds.
IsNcname(value) == Len(value) = 1 /\ value[1] \in NcnameTokens

\* A reification in the factory's default graph, whatever the option.
ReificationInFactoryGraph(this, subject, predicate, object, statementId) ==
  << quad(statementId, namedNode(RDF \o <<"type">>),
          namedNode(RDF \o <<"Statement">>), factoryDefaultGraph),
     quad(statementId, namedNode(RDF \o <<"subject">>), subject,
          factoryDefaultGraph),
     quad(statementId, namedNode(RDF \o <<"predicate">>), predicate,
          factoryDefaultGraph),
     quad(statementId, namedNode(RDF \o <<"object">>), object,
          factoryDefaultGraph) >>

\* The four quads of a reified statement, the object ahead of the subject.
ReificationObjectFirst(this, subject, predicate, object, statementId) ==
  << quad(statementId, namedNode(RDF \o <<"type">>),
          namedNode(RDF \o <<"Statement">>), this.defaultGraph),
     quad(statementId, namedNode(RDF \o <<"object">>), object,
          this.defaultGraph),
     quad(statementId, namedNode(RDF \o <<"predicate">>), predicate,
          this.defaultGraph),
     quad(statementId, namedNode(RDF \o <<"subject">>), subject,
          this.defaultGraph) >>

\* Lines 664-676: the four quads of a reified statement.
Reification(this, subject, predicate, object, statementId) ==
  << quad(statementId, namedNode(RDF \o <<"type">>),
          namedNode(RDF \o <<"Statement">>), this.defaultGraph),
     quad(statementId, namedNode(RDF \o <<"subject">>), subject,
          this.defaultGraph),
     quad(statementId, namedNode(RDF \o <<"predicate">>), predicate,
          this.defaultGraph),
     quad(statementId, namedNode(RDF \o <<"object">>), object,
          this.defaultGraph) >>

emitTriple(this, subject, predicate, object, statementId) ==
  [this EXCEPT !.pushed =
     @ \o << quad(subject, predicate, object, this.defaultGraph) >>
       \o (IF statementId # NullTerm
           THEN Reification(this, subject, predicate, object, statementId)
           ELSE << >>)]

claimNodeId(this, term) ==
  IF ~this.allowDuplicateRdfIds
  THEN IF term.value \in this.nodeIds
       THEN Throw(this)
       ELSE [this EXCEPT !.nodeIds = @ \cup {term.value}]
  ELSE this

(***************************************************************************)
(* Namespaces.  A tag is [name, attributes], attributes a sequence of      *)
(* [key, value] in the tokenizer's insertion order.                        *)
(***************************************************************************)
RECURSIVE NamespaceAttributes(_, _, _)
\* The loop of parseNamespace; acc is [thisNs, hasNs].
NamespaceAttributes(attributes, i, acc) ==
  IF i > Len(attributes) THEN acc
  ELSE LET attributeKey == attributes[i].key
           value == attributes[i].value
       IN IF attributeKey # EMPTY /\ attributeKey[1] = "xmlns"
          THEN IF Len(attributeKey) = 1
               THEN NamespaceAttributes(attributes, i + 1,
                      [thisNs |-> Put(acc.thisNs, EMPTY, value),
                       hasNs |-> TRUE])
               ELSE IF attributeKey[2] = ":"
                    THEN NamespaceAttributes(attributes, i + 1,
                           [thisNs |-> Put(acc.thisNs,
                                   SubSeq(attributeKey, 3, Len(attributeKey)),
                                   value),
                            hasNs |-> TRUE])
                    ELSE NamespaceAttributes(attributes, i + 1, acc)
          ELSE NamespaceAttributes(attributes, i + 1, acc)

\* parentNs is the parent's ns, << >> when there is no parent or it has none.
\* scanned is what the loop found, inherited the parent's ns or the default.
Namespaces(scanned, inherited) ==
  IF scanned.hasNs THEN inherited \o << scanned.thisNs >> ELSE inherited

parseNamespace(tag, parentNs) ==
  Namespaces(NamespaceAttributes(tag.attributes, 1,
               [thisNs |-> NoBindings, hasNs |-> FALSE]),
             IF parentNs # << >> THEN parentNs ELSE << DEFAULT_NS >>)

RECURSIVE NamespaceLookup(_, _, _, _)
\* The loop of expandPrefixedTerm from frame i outwards: [uri, defaultNamespace].
NamespaceLookup(ns, prefix, i, defaultNamespace) ==
  IF i = 0
  THEN [uri |-> NULL, defaultNamespace |-> defaultNamespace]
  ELSE IF Truthy(Get(ns[i], prefix))
       THEN [uri |-> Get(ns[i], prefix), defaultNamespace |-> defaultNamespace]
       ELSE NamespaceLookup(ns, prefix, i - 1,
              IF ~Truthy(defaultNamespace)
              THEN Get(ns[i], EMPTY)
              ELSE defaultNamespace)

\* [prefix, local, uri, thrown]: thrown when the prefix is not bound.
\* Lines 126-128: the term split at its first colon.
Prefix(term, colonIndex) ==
  IF colonIndex > 0 THEN SubSeq(term, 1, colonIndex - 1) ELSE EMPTY

Local(term, colonIndex) ==
  IF colonIndex > 0 THEN SubSeq(term, colonIndex + 1, Len(term)) ELSE term

\* Lines 150-160: found is what the loop over the frames found.
Expanded(prefix, local, found) ==
  [ prefix |-> prefix,
    local |-> local,
    uri |-> IF Truthy(found.uri) THEN found.uri
            ELSE OrElse(found.defaultNamespace, EMPTY),
    thrown |-> ~Truthy(found.uri) /\ Truthy(prefix) /\ prefix # <<"xmlns">> ]

Lookup(prefix, local, ns) ==
  Expanded(prefix, local, NamespaceLookup(ns, prefix, Len(ns), NULL))

expandPrefixedTerm(term, ns) ==
  Lookup(Prefix(term, indexOf(term, ":")), Local(term, indexOf(term, ":")), ns)

(***************************************************************************)
(* onTagResource: a node element.  The handlers take the parser (this) and *)
(* return it as the handler leaves it, thrown set when it threw; what a    *)
(* handler did before it threw stays done.                                 *)
(***************************************************************************)
rdfType == namedNode(RDF \o <<"type">>)

\* The locals of onTagResource's loop over the attributes.
ResourceLocals(this) ==
  [ this |-> this,
    predicates |-> << >>,
    objects |-> << >>,
    activeSubjectValue |-> NULL,
    claimSubjectNodeId |-> FALSE,
    subjectValueBlank |-> FALSE,
    explicitType |-> NULL ]

Raise(locals) == [locals EXCEPT !.this = Throw(@)]

\* Lines 397-402: the attribute as a property of this node.
ResourceShorthand(locals, expanded, attributeValue) ==
  IF expanded.prefix # <<"xml">> /\ Truthy(expanded.uri)
  THEN IF uriToNamedNode(expanded.uri \o expanded.local).thrown
       THEN Raise(locals)
       ELSE [locals EXCEPT
               !.predicates =
                  Append(@, uriToNamedNode(expanded.uri \o expanded.local).node),
               !.objects = Append(@, attributeValue)]
  ELSE locals

\* An xml:base that becomes the base of the root frame too.
ResourceBaseOfDocument(locals, resolved) ==
  IF resolved.thrown THEN Raise(locals)
  ELSE [locals EXCEPT !.this =
          SetTop([@ EXCEPT !.activeTagStack[1].baseIRI = resolved.value],
                 [Top(@) EXCEPT !.baseIRI = resolved.value])]

\* Lines 390-394: xml:base, resolved against the base inherited so far.
ResourceBase(locals, resolved) ==
  IF resolved.thrown THEN Raise(locals)
  ELSE [locals EXCEPT !.this =
          SetTop(@, [Top(@) EXCEPT !.baseIRI = resolved.value])]

\* An xml:lang kept as it is written.
LanguageAsWritten(locals, attributeValue) ==
  [locals EXCEPT !.this =
     SetTop(@, [Top(@) EXCEPT !.language =
                  IF attributeValue = EMPTY THEN NULL ELSE attributeValue])]

\* Lines 387-389: xml:lang.
Language(locals, attributeValue) ==
  [locals EXCEPT !.this =
     SetTop(@, [Top(@) EXCEPT !.language =
                  IF attributeValue = EMPTY THEN NULL
                  ELSE toLowerCase(attributeValue)])]

\* One pass of the loop of lines 343-403; expanded is attributeKeyExpanded.
ResourceAttribute(locals, expanded, attributeValue) ==
  CASE expanded.thrown -> Raise(locals)
    [] ~expanded.thrown /\ HasParent(locals.this) /\ expanded.uri = RDF
         /\ expanded.local = <<"about">> ->
         IF Truthy(locals.activeSubjectValue) THEN Raise(locals)
         ELSE [locals EXCEPT !.activeSubjectValue = attributeValue]
    [] ~expanded.thrown /\ HasParent(locals.this) /\ expanded.uri = RDF
         /\ expanded.local = <<"ID">> ->
         IF Truthy(locals.activeSubjectValue) THEN Raise(locals)
         ELSE IF ~IsNcname(attributeValue) THEN Raise(locals)
         ELSE [locals EXCEPT !.activeSubjectValue = <<"#">> \o attributeValue,
                             !.claimSubjectNodeId = TRUE]
    [] ~expanded.thrown /\ HasParent(locals.this) /\ expanded.uri = RDF
         /\ expanded.local = <<"nodeID">> ->
         IF Truthy(locals.activeSubjectValue) THEN Raise(locals)
         ELSE IF ~IsNcname(attributeValue) THEN Raise(locals)
         ELSE [locals EXCEPT !.activeSubjectValue = attributeValue,
                             !.subjectValueBlank = TRUE]
    [] ~expanded.thrown /\ HasParent(locals.this) /\ expanded.uri = RDF
         /\ expanded.local \in { <<"bagID">>, <<"aboutEach">>,
                                 <<"aboutEachPrefix">>, <<"li">> } ->
         Raise(locals)
    [] ~expanded.thrown /\ HasParent(locals.this) /\ expanded.uri = RDF
         /\ expanded.local = <<"type">> ->
         [locals EXCEPT !.explicitType = attributeValue]
    [] ~expanded.thrown /\ ~(HasParent(locals.this) /\ expanded.uri = RDF)
         /\ expanded.uri = XML /\ expanded.local = <<"lang">> ->
         Language(locals, attributeValue)
    [] ~expanded.thrown /\ ~(HasParent(locals.this) /\ expanded.uri = RDF)
         /\ expanded.uri = XML /\ expanded.local = <<"base">> ->
         ResourceBase(locals, resolve(attributeValue, Top(locals.this).baseIRI))
    [] OTHER -> ResourceShorthand(locals, expanded, attributeValue)

RECURSIVE ResourceAttributes(_, _, _)
ResourceAttributes(locals, attributes, i) ==
  IF i > Len(attributes) \/ locals.this.thrown THEN locals
  ELSE ResourceAttributes(
         ResourceAttribute(locals,
           expandPrefixedTerm(attributes[i].key, Top(locals.this).ns),
           attributes[i].value),
         attributes, i + 1)

\* Lines 406-411: subject is what the factory or valueToUri returned.
ResourceSubjectNode(this, subject, claimSubjectNodeId) ==
  IF subject.thrown THEN Throw(this)
  ELSE IF claimSubjectNodeId
       THEN claimNodeId(SetTop(this, [Top(this) EXCEPT !.subject = subject.node]),
                        subject.node)
       ELSE SetTop(this, [Top(this) EXCEPT !.subject = subject.node])

\* A subject resolved against the base IRI of the parent.
ResourceSubjectOfParentBase(locals) ==
  IF locals.activeSubjectValue # NULL
  THEN ResourceSubjectNode(locals.this,
         IF locals.subjectValueBlank
         THEN NodeResult(FALSE, blankNode(locals.activeSubjectValue))
         ELSE valueToUri(locals.activeSubjectValue,
                IF HasParent(locals.this) THEN Parent(locals.this)
                ELSE Top(locals.this)),
         locals.claimSubjectNodeId)
  ELSE Minted(SetTop(locals.this,
         [Top(locals.this) EXCEPT !.subject = NextBlankNode(locals.this)]))

\* Lines 405-417: the subject, once all attributes have been read.
ResourceSubject(locals) ==
  IF locals.activeSubjectValue # NULL
  THEN ResourceSubjectNode(locals.this,
         IF locals.subjectValueBlank
         THEN NodeResult(FALSE, blankNode(locals.activeSubjectValue))
         ELSE valueToUri(locals.activeSubjectValue, Top(locals.this)),
         locals.claimSubjectNodeId)
  ELSE Minted(SetTop(locals.this,
         [Top(locals.this) EXCEPT !.subject = NextBlankNode(locals.this)]))

RECURSIVE EmitShorthands(_, _, _, _, _, _)
\* The loop of lines 462-466.
EmitShorthands(this, subject, predicates, objects, statementId, i) ==
  IF i > Len(predicates) THEN this
  ELSE EmitShorthands(
         emitTriple(this, subject, predicates[i],
                    literal(objects[i], Top(this).datatype, Top(this).language),
                    statementId),
         subject, predicates, objects, statementId, i + 1)

RECURSIVE EmitPending(_, _, _, _, _)
\* The loops of lines 449-452, 638-640 and 744-746.
EmitPending(this, subject, predicates, objects, i) ==
  IF i > Len(predicates) THEN this
  ELSE EmitPending(emitTriple(this, subject, predicates[i], objects[i], NullTerm),
                   subject, predicates, objects, i + 1)

\* Lines 419-424: the type of a typed node.
ResourceType(this, tagExpanded, typedNode) ==
  IF typedNode
  THEN IF uriToNamedNode(tagExpanded.uri \o tagExpanded.local).thrown
       THEN Throw(this)
       ELSE emitTriple(this, Top(this).subject, rdfType,
                       uriToNamedNode(tagExpanded.uri \o tagExpanded.local).node,
                       IF HasParent(this) THEN Parent(this).reifiedStatementId
                       ELSE NullTerm)
  ELSE this

\* An item linked from the head of the collection whatever came before it.
ResourceAsItemOfHead(this, linkTerm) ==
  emitTriple(
    emitTriple(Minted(this), Parent(this).childrenCollectionSubject,
               Parent(this).childrenCollectionPredicate, linkTerm,
               Parent(this).reifiedStatementId),
    linkTerm, namedNode(RDF \o <<"first">>), Top(this).subject,
    Top(this).reifiedStatementId)

\* Lines 431-443: the node as an item of the parent's collection.
ResourceAsItem(this, linkTerm) ==
  SetParent(
    emitTriple(
      emitTriple(Minted(this), Parent(this).childrenCollectionSubject,
                 Parent(this).childrenCollectionPredicate, linkTerm,
                 Parent(this).reifiedStatementId),
      linkTerm, namedNode(RDF \o <<"first">>), Top(this).subject,
      Top(this).reifiedStatementId),
    [Parent(this) EXCEPT
       !.childrenCollectionSubject = linkTerm,
       !.childrenCollectionPredicate = namedNode(RDF \o <<"rest">>)])

\* A link that leaves the pending pairs with the parent.
ResourceAsValueKeepsPending(this) ==
  IF Parent(this).predicate # NullTerm
  THEN EmitPending(
         emitTriple(this, Parent(this).subject, Parent(this).predicate,
                    Top(this).subject, Parent(this).reifiedStatementId),
         Top(this).subject, Parent(this).predicateSubPredicates,
         Parent(this).predicateSubObjects, 1)
  ELSE this

\* Lines 428-459: the node as the value of its parent property.
ResourceAsValue(this) ==
  IF Parent(this).predicate # NullTerm
  THEN IF Parent(this).childrenCollectionSubject # NullTerm
       THEN ResourceAsItem(this, NextBlankNode(this))
       ELSE SetParent(
              EmitPending(
                emitTriple(this, Parent(this).subject, Parent(this).predicate,
                           Top(this).subject, Parent(this).reifiedStatementId),
                Top(this).subject, Parent(this).predicateSubPredicates,
                Parent(this).predicateSubObjects, 1),
              [Parent(this) EXCEPT !.predicateSubPredicates = << >>,
                                   !.predicateSubObjects = << >>,
                                   !.predicateEmitted = TRUE])
  ELSE this

\* Lines 467-471: rdf:type as an attribute.
ResourceExplicitType(this, explicitType) ==
  IF Truthy(explicitType)
  THEN IF uriToNamedNode(explicitType).thrown
       THEN Throw(this)
       ELSE emitTriple(this, Top(this).subject, rdfType,
                       uriToNamedNode(explicitType).node, NullTerm)
  ELSE this

\* The rdf:type attribute ahead of the shorthand attributes.
ResourcePropertiesTypeFirst(valued, locals) ==
  EmitShorthands(ResourceExplicitType(valued, locals.explicitType),
                 Top(valued).subject, locals.predicates, locals.objects,
                 Parent(valued).reifiedStatementId, 1)

\* Lines 461-471: valued is the parser once the node is its parent's value.
ResourceProperties(valued, locals) ==
  ResourceExplicitType(
    EmitShorthands(valued, Top(valued).subject, locals.predicates,
                   locals.objects, Parent(valued).reifiedStatementId, 1),
    locals.explicitType)

\* Lines 426-472: typed is the parser once the type has been emitted.
ResourceLinked(typed, locals) ==
  IF typed.thrown \/ ~HasParent(typed) THEN typed
  ELSE ResourceProperties(ResourceAsValue(typed), locals)

\* Lines 419-472: this is the parser once the subject is known.
ResourceEmit(this, locals, tagExpanded) ==
  IF this.thrown THEN this
  ELSE ResourceLinked(
         ResourceType(this, tagExpanded,
           ~(tagExpanded.uri = RDF
             /\ tagExpanded.local \in {<<"RDF">>, <<"Description">>})),
         locals)

\* Lines 405-472: locals is what the loop over the attributes left.
ResourceRead(locals, tagExpanded) ==
  IF locals.this.thrown THEN locals.this
  ELSE ResourceEmit(ResourceSubject(locals), locals, tagExpanded)

\* Lines 316-403: the element's name, then its attributes.
ResourceNamed(this, tag, tagExpanded) ==
  IF tagExpanded.thrown THEN Throw(this)
  ELSE IF /\ tagExpanded.uri = RDF
          /\ HasParent(this)
          /\ tagExpanded.local \in FORBIDDEN_NODE_ELEMENTS
       THEN Throw(SetTop(this, [Top(this) EXCEPT !.childrenParseType = "PROPERTY"]))
       ELSE ResourceRead(
              ResourceAttributes(
                ResourceLocals(SetTop(this,
                  [Top(this) EXCEPT !.childrenParseType =
                     IF tagExpanded.uri = RDF /\ tagExpanded.local = <<"RDF">>
                     THEN "RESOURCE" ELSE "PROPERTY"])),
                tag.attributes, 1),
              tagExpanded)

\* this has activeTag on top of the stack; rootTag is ~HasParent(this).
onTagResource(this, tag) ==
  ResourceNamed(this, tag, expandPrefixedTerm(tag.name, Top(this).ns))

(***************************************************************************)
(* onTagProperty: a property element.                                      *)
(***************************************************************************)
\* The locals of onTagProperty's loop over the attributes.
PropertyLocals(this) ==
  [ this |-> this,
    parseType |-> FALSE,
    attributedProperty |-> FALSE,
    activeSubSubjectValue |-> NULL,
    subSubjectValueBlank |-> TRUE,
    predicates |-> << >>,
    objects |-> << >> ]

SetActive(locals, activeTag) == [locals EXCEPT !.this = SetTop(@, activeTag)]

\* Lines 519-531.
PropertyResource(locals, attributeValue) ==
  IF Truthy(locals.activeSubSubjectValue) \/ locals.parseType
  THEN Raise(locals)
  ELSE [SetActive(locals, [Top(locals.this) EXCEPT !.hadChildren = TRUE])
          EXCEPT !.activeSubSubjectValue = attributeValue,
                 !.subSubjectValueBlank = FALSE]

\* Lines 532-542: datatype is what valueToUri returned.
PropertyDatatypeNode(locals, datatype) ==
  IF datatype.thrown THEN Raise(locals)
  ELSE SetActive(locals, [Top(locals.this) EXCEPT !.datatype = datatype.node])

PropertyDatatype(locals, attributeValue) ==
  IF locals.attributedProperty \/ locals.parseType
  THEN Raise(locals)
  ELSE PropertyDatatypeNode(locals, valueToUri(attributeValue, Top(locals.this)))

\* Lines 543-559.
PropertyNodeID(locals, attributeValue) ==
  IF \/ locals.attributedProperty
     \/ Top(locals.this).hadChildren
     \/ locals.parseType
     \/ ~IsNcname(attributeValue)
  THEN Raise(locals)
  ELSE [SetActive(locals, [Top(locals.this) EXCEPT !.hadChildren = TRUE])
          EXCEPT !.activeSubSubjectValue = attributeValue,
                 !.subSubjectValueBlank = TRUE]

\* Lines 577-585: parseType="Resource".
ParseTypeResource(locals) ==
  LET this == locals.this
      activeTag == Top(this)
      nestedBNode == NextBlankNode(this)
      emitted == emitTriple(Minted(this), activeTag.subject, activeTag.predicate,
                            nestedBNode, activeTag.reifiedStatementId)
  IN [locals EXCEPT
        !.parseType = TRUE,
        !.this = SetTop(emitted,
                   [activeTag EXCEPT !.childrenParseType = "PROPERTY",
                                     !.subject = nestedBNode,
                                     !.predicate = NullTerm])]

\* Lines 586-592: parseType="Collection".
ParseTypeCollection(locals) ==
  LET activeTag == Top(locals.this)
  IN [SetActive(locals,
        [activeTag EXCEPT !.hadChildren = TRUE,
                          !.childrenCollectionSubject = activeTag.subject,
                          !.childrenCollectionPredicate = activeTag.predicate])
        EXCEPT !.parseType = TRUE, !.subSubjectValueBlank = FALSE]

\* Lines 593-598: parseType="Literal"; childrenStringTags = [] is a new array.
ParseTypeLiteral(locals) ==
  LET this == locals.this
      allocated == [this EXCEPT !.arrays = Append(@, << >>)]
  IN [locals EXCEPT
        !.parseType = TRUE,
        !.this = SetTop(allocated,
                   [Top(this) EXCEPT !.childrenTagsToString = TRUE,
                                     !.childrenStringTags = Len(allocated.arrays)])]

\* Lines 562-599.
PropertyParseType(locals, attributeValue) ==
  IF \/ locals.attributedProperty
     \/ Top(locals.this).datatype # NullTerm
     \/ Truthy(locals.activeSubSubjectValue)
  THEN Raise(locals)
  ELSE CASE attributeValue = <<"Resource">> -> ParseTypeResource(locals)
         [] attributeValue = <<"Collection">> -> ParseTypeCollection(locals)
         [] attributeValue = <<"Literal">> -> ParseTypeLiteral(locals)
         [] OTHER -> locals

\* Lines 602-603: statementId is what valueToUri returned.
PropertyStatementId(locals, statementId) ==
  IF statementId.thrown THEN Raise(locals)
  ELSE [locals EXCEPT !.this =
          claimNodeId(
            SetTop(@, [Top(@) EXCEPT !.reifiedStatementId = statementId.node]),
            statementId.node)]

\* Lines 600-604.
PropertyID(locals, attributeValue) ==
  IF ~IsNcname(attributeValue) THEN Raise(locals)
  ELSE PropertyStatementId(locals,
         valueToUri(<<"#">> \o attributeValue, Top(locals.this)))

\* Lines 613-627: the attribute as a property of the value of this property.
PropertyShorthand(locals, expanded, attributeValue) ==
  IF /\ expanded.prefix # <<"xml">>
     /\ expanded.prefix # <<"xmlns">>
     /\ Truthy(expanded.uri)
  THEN IF locals.parseType \/ Top(locals.this).datatype # NullTerm
       THEN Raise(locals)
       ELSE LET marked == SetActive(locals,
                            [Top(locals.this) EXCEPT !.hadChildren = TRUE])
                predicate == uriToNamedNode(expanded.uri \o expanded.local)
            IN IF predicate.thrown
               THEN Raise([marked EXCEPT !.attributedProperty = TRUE])
               ELSE [marked EXCEPT
                       !.attributedProperty = TRUE,
                       !.predicates = Append(@, predicate.node),
                       !.objects = Append(@,
                          literal(attributeValue, Top(locals.this).datatype,
                                  Top(locals.this).language))]
  ELSE locals

\* One pass of the loop of lines 513-628; expanded is
\* propertyAttributeKeyExpanded.
PropertyAttribute(locals, expanded, attributeValue) ==
  CASE expanded.thrown -> Raise(locals)
    [] ~expanded.thrown /\ expanded.uri = RDF
         /\ expanded.local = <<"resource">> ->
         PropertyResource(locals, attributeValue)
    [] ~expanded.thrown /\ expanded.uri = RDF
         /\ expanded.local = <<"datatype">> ->
         PropertyDatatype(locals, attributeValue)
    [] ~expanded.thrown /\ expanded.uri = RDF
         /\ expanded.local = <<"nodeID">> ->
         PropertyNodeID(locals, attributeValue)
    [] ~expanded.thrown /\ expanded.uri = RDF
         /\ expanded.local = <<"bagID">> ->
         Raise(locals)
    [] ~expanded.thrown /\ expanded.uri = RDF
         /\ expanded.local = <<"parseType">> ->
         PropertyParseType(locals, attributeValue)
    [] ~expanded.thrown /\ expanded.uri = RDF
         /\ expanded.local = <<"ID">> ->
         PropertyID(locals, attributeValue)
    [] ~expanded.thrown /\ expanded.uri # RDF /\ expanded.uri = XML
         /\ expanded.local = <<"lang">> ->
         Language(locals, attributeValue)
    [] OTHER -> PropertyShorthand(locals, expanded, attributeValue)

RECURSIVE PropertyAttributes(_, _, _)
PropertyAttributes(locals, attributes, i) ==
  IF i > Len(attributes) \/ locals.this.thrown THEN locals
  ELSE PropertyAttributes(
         PropertyAttribute(locals,
           expandPrefixedTerm(attributes[i].key, Top(locals.this).ns),
           attributes[i].value),
         attributes, i + 1)

\* Lines 631-641: subject is what the factory or valueToUri returned.
PropertyObject(this, subject, locals) ==
  IF subject.thrown THEN Throw(this)
  ELSE SetTop(
         EmitPending(
           emitTriple(this, Top(this).subject, Top(this).predicate,
                      subject.node, Top(this).reifiedStatementId),
           subject.node, locals.predicates, locals.objects, 1),
         [Top(this) EXCEPT !.subject = subject.node,
                           !.predicateEmitted = TRUE])

\* Lines 630-649: the value of the property, once all attributes are read.
PropertyValue(locals) ==
  IF locals.activeSubSubjectValue # NULL
  THEN PropertyObject(locals.this,
         IF locals.subSubjectValueBlank
         THEN NodeResult(FALSE, blankNode(locals.activeSubSubjectValue))
         ELSE valueToUri(locals.activeSubSubjectValue, Top(locals.this)),
         locals)
  ELSE IF locals.subSubjectValueBlank
       THEN SetTop(locals.this,
              [Top(locals.this) EXCEPT
                 !.predicateSubPredicates = locals.predicates,
                 !.predicateSubObjects = locals.objects,
                 !.predicateEmitted = FALSE])
       ELSE locals.this

\* Lines 630-649: locals is what the loop over the attributes left.
PropertyRead(locals) ==
  IF locals.this.thrown THEN locals.this ELSE PropertyValue(locals)

\* Lines 484-494: the frame with the parent's subject and its predicate;
\* predicate is what uriToNamedNode returned.
PropertyEntered(this, predicate) ==
  IF predicate.thrown
  THEN Throw(SetTop(this,
         [Top(this) EXCEPT !.childrenParseType = "RESOURCE",
                           !.subject = Parent(this).subject]))
  ELSE SetTop(this,
         [Top(this) EXCEPT !.childrenParseType = "RESOURCE",
                           !.subject = Parent(this).subject,
                           !.predicate = predicate.node])

\* An rdf:li that leaves the counter of its parent as it was.
PropertyListItemUncounted(this, tagExpanded, listItemCounter) ==
  PropertyEntered(this,
    uriToNamedNode(tagExpanded.uri \o <<"_", ToString(listItemCounter)>>))

\* Lines 486-491: rdf:li counts on the parent.
PropertyListItem(this, tagExpanded, listItemCounter) ==
  PropertyEntered(
    SetParent(this, [Parent(this) EXCEPT !.listItemCounter = listItemCounter + 1]),
    uriToNamedNode(tagExpanded.uri \o <<"_", ToString(listItemCounter)>>))

\* Lines 484-494.
PropertyPredicate(this, tagExpanded) ==
  IF tagExpanded.uri = RDF /\ tagExpanded.local = <<"li">>
  THEN PropertyListItem(this, tagExpanded,
         IF Parent(this).listItemCounter = 0 THEN 1
         ELSE Parent(this).listItemCounter)
  ELSE PropertyEntered(this, uriToNamedNode(tagExpanded.uri \o tagExpanded.local))

\* Lines 496-649: named is the parser once the predicate is set.
PropertyChecked(named, tag, tagExpanded) ==
  IF named.thrown THEN named
  ELSE IF /\ tagExpanded.uri = RDF
          /\ tagExpanded.local \in FORBIDDEN_PROPERTY_ELEMENTS
       THEN Throw(named)
       ELSE PropertyRead(
              PropertyAttributes(PropertyLocals(named), tag.attributes, 1))

PropertyNamed(this, tag, tagExpanded) ==
  IF tagExpanded.thrown THEN Throw(this)
  ELSE PropertyChecked(PropertyPredicate(this, tagExpanded), tag, tagExpanded)

\* this has activeTag on top of the stack and parentTag below it.
onTagProperty(this, tag) ==
  PropertyNamed(this, tag, expandPrefixedTerm(tag.name, Top(this).ns))

(***************************************************************************)
(* onTag, onText, onCloseTag, onDoctype: the four listeners.               *)
(***************************************************************************)
RECURSIVE AttributesString(_, _)
\* The loop of lines 272-274: ` key="value"` for each attribute.
AttributesString(attributes, i) ==
  IF i > Len(attributes) THEN EMPTY
  ELSE <<" ">> \o attributes[i].key \o <<"=\"">> \o attributes[i].value
       \o <<"\"">> \o AttributesString(attributes, i + 1)

\* A tag below an XML literal kept as a string without a frame of its own.
StringTagUnframed(this, tag) ==
  [this EXCEPT
     !.arrays[Top(this).childrenStringTags] =
        Append(@, <<"<">> \o tag.name \o AttributesString(tag.attributes, 1)
                  \o <<">">>)]

\* Lines 268-286: a tag below an XML literal is kept as a string; the frame
\* on top is parentTag.
StringTag(this, tag) ==
  [this EXCEPT
     !.arrays[Top(this).childrenStringTags] =
        Append(@, <<"<">> \o tag.name \o AttributesString(tag.attributes, 1)
                  \o <<">">>),
     !.activeTagStack =
        Append(@, [NewActiveTag EXCEPT
                     !.childrenStringTags = Top(this).childrenStringTags,
                     !.childrenStringEmitClosingTag =
                        <<"</">> \o tag.name \o <<">">>])]

\* Lines 262-265: parentTag.hadChildren = true.
HadChildren(this) ==
  IF Depth(this) > 0
  THEN SetTop(this, [Top(this) EXCEPT !.hadChildren = TRUE])
  ELSE this

\* Lines 288-297: the frame of the tag, pushed on the stack of this.
ActiveTag(this, tag) ==
  IF Depth(this) > 0
  THEN [NewActiveTag EXCEPT !.language = Top(this).language,
                            !.baseIRI = Top(this).baseIRI,
                            !.ns = parseNamespace(tag, Top(this).ns)]
  ELSE [NewActiveTag EXCEPT !.baseIRI = this.baseIRI,
                            !.ns = parseNamespace(tag, << >>)]

\* A push that leaves the namespace stack of the new frame to its parent too.
PushShared(this, activeTag) ==
  IF Depth(this) > 0
  THEN [this EXCEPT !.activeTagStack =
          Append([@ EXCEPT ![Depth(this)].ns = activeTag.ns], activeTag)]
  ELSE [this EXCEPT !.activeTagStack = Append(@, activeTag)]

\* Line 296: activeTagStack.push(activeTag).
Push(this, activeTag) == [this EXCEPT !.activeTagStack = Append(@, activeTag)]

\* A dispatch on the depth of the element alone: node elements at the odd
\* depths, property elements at the even ones.
onTagByDepth(this, tag) ==
  IF Depth(this) > 0 /\ Top(this).childrenStringTags # 0
  THEN StringTag(HadChildren(this), tag)
  ELSE IF Depth(this) % 2 = 1
       THEN onTagProperty(Push(HadChildren(this), ActiveTag(this, tag)), tag)
       ELSE onTagResource(Push(HadChildren(this), ActiveTag(this, tag)), tag)

onTag(this, tag) ==
  IF Depth(this) > 0 /\ Top(this).childrenStringTags # 0
  THEN StringTag(HadChildren(this), tag)
  ELSE IF Depth(this) > 0 /\ Top(this).childrenParseType # "RESOURCE"
       THEN onTagProperty(Push(HadChildren(this), ActiveTag(this, tag)), tag)
       ELSE onTagResource(Push(HadChildren(this), ActiveTag(this, tag)), tag)

\* A text listener that keeps the first text of the element.
onTextFirst(this, text) ==
  IF Depth(this) > 0
  THEN IF Top(this).childrenStringTags # 0
       THEN [this EXCEPT !.arrays[Top(this).childrenStringTags] = Append(@, text)]
       ELSE IF Top(this).predicate # NullTerm /\ Top(this).text = NULL
            THEN SetTop(this, [Top(this) EXCEPT !.text = text])
            ELSE this
  ELSE this

\* Lines 699-710: the text of a property element, or of an XML literal.
onText(this, text) ==
  IF Depth(this) > 0
  THEN IF Top(this).childrenStringTags # 0
       THEN [this EXCEPT !.arrays[Top(this).childrenStringTags] = Append(@, text)]
       ELSE IF Top(this).predicate # NullTerm
            THEN SetTop(this, [Top(this) EXCEPT !.text = text])
            ELSE this
  ELSE this

\* Lines 740-747: the value of a property element without a value.
CloseAnonymous(this, poppedTag, subject) ==
  EmitPending(
    emitTriple(Minted(this), poppedTag.subject, poppedTag.predicate, subject,
               poppedTag.reifiedStatementId),
    subject, poppedTag.predicateSubPredicates, poppedTag.predicateSubObjects, 1)

\* Lines 730-748: what the popped frame still has to emit.
CloseEmit(this, poppedTag) ==
  IF poppedTag.childrenCollectionSubject # NullTerm
  THEN emitTriple(this, poppedTag.childrenCollectionSubject,
                  poppedTag.childrenCollectionPredicate,
                  namedNode(RDF \o <<"nil">>), poppedTag.reifiedStatementId)
  ELSE IF poppedTag.predicate # NullTerm
       THEN IF ~poppedTag.hadChildren
               /\ poppedTag.childrenParseType # "PROPERTY"
            THEN emitTriple(this, poppedTag.subject, poppedTag.predicate,
                   literal(OrElse(poppedTag.text, EMPTY), poppedTag.datatype,
                           poppedTag.language),
                   poppedTag.reifiedStatementId)
            ELSE IF ~poppedTag.predicateEmitted
                 THEN CloseAnonymous(this, poppedTag, NextBlankNode(this))
                 ELSE this
       ELSE this

\* Line 716: activeTagStack.pop().
Pop(this) == [this EXCEPT !.activeTagStack = SubSeq(@, 1, Depth(this) - 1)]

\* A close that keeps no closing tag.
ClosingTagDropped(this, poppedTag) == this

\* Lines 718-721: the closing tag of a tag kept as a string.
ClosingTag(this, poppedTag) ==
  IF Truthy(poppedTag.childrenStringEmitClosingTag)
  THEN [this EXCEPT !.arrays[poppedTag.childrenStringTags] =
          Append(@, poppedTag.childrenStringEmitClosingTag)]
  ELSE this

\* Lines 723-728: the XML literal of the tags and texts kept as strings.
XmlLiteral(this, poppedTag) ==
  IF poppedTag.childrenTagsToString
  THEN [poppedTag EXCEPT
          !.datatype = namedNode(RDF \o <<"XMLLiteral">>),
          !.text = join(this.arrays[poppedTag.childrenStringTags]),
          !.hadChildren = FALSE]
  ELSE poppedTag

\* Lines 723-748: closed is the parser once the closing tag is kept.
Closed(closed, poppedTag) == CloseEmit(closed, XmlLiteral(closed, poppedTag))

\* Called with a frame on the stack: the tokenizer closes only what it opened.
onCloseTag(this) == Closed(ClosingTag(Pop(this), Top(this)), Top(this))

RECURSIVE Entities(_, _, _)
\* doctype.replace of lines 756-759: every <!ENTITY prefix "uri"> of the
\* doctype, a sequence of [prefix, uri], is registered in the tokenizer.
Entities(table, doctype, i) ==
  IF i > Len(doctype) THEN table
  ELSE Entities(Put(table, doctype[i].prefix, doctype[i].uri), doctype, i + 1)

onDoctype(this, doctype) ==
  [this EXCEPT !.ENTITIES = Entities(@, doctype, 1)]

(***************************************************************************)
(* _transform: the tokenizer calls the listeners for what it reads from    *)
(* the chunk.  An exception of a listener ends saxStream.write and is      *)
(* handed to the callback, which reports it on the error channel and       *)
(* destroys the stream: _transform is not called again.                    *)
(***************************************************************************)
Event(type, tag, text, doctype) ==
  [type |-> type, tag |-> tag, text |-> text, doctype |-> doctype]

Tag(name, attributes) == [name |-> name, attributes |-> attributes]
NoTag == Tag(EMPTY, << >>)
OpenTag(tag) == Event("opentag", tag, EMPTY, << >>)
Text(text) == Event("text", NoTag, text, << >>)
CloseTag == Event("closetag", NoTag, EMPTY, << >>)
Doctype(doctype) == Event("doctype", NoTag, EMPTY, doctype)

\* A callback that reports the error and leaves the stream open.
CallbackKeepsOpen(this) ==
  IF this.thrown
  THEN [this EXCEPT !.thrown = FALSE, !.errors = @ + 1]
  ELSE this

\* callback(e) of line 190, callback() of line 192.
Callback(this) ==
  IF this.thrown
  THEN [this EXCEPT !.thrown = FALSE, !.errors = @ + 1, !.destroyed = TRUE]
  ELSE this

\* written is the parser as saxStream.write leaves it: the listener of the
\* chunk's event has run, and has thrown or returned.
Transform(this, written) ==
  IF this.destroyed THEN this ELSE Callback(written)

(***************************************************************************)
(* The documents.  A document is the sequence of events the tokenizer      *)
(* makes of it.  The model reads every document of at most MaxEvents       *)
(* events and MaxAttributes attributes (the namespace declarations of the  *)
(* root apart) over one of the vocabularies below.                         *)
(***************************************************************************)
MaxEvents == 6
MaxAttributes == 2
\* Writes offered to a destroyed stream.
MaxRefused == 1

Attribute(key, value) == [key |-> key, value |-> value]
QName(prefix, local) == <<prefix, ":", local>>

\* The declarations every root carries: xmlns:rdf and xmlns:ex.
RootDeclarations ==
  << Attribute(QName("xmlns", "rdf"), RDF),
     Attribute(QName("xmlns", "ex"), <<"http://e/">>) >>

\* IRdfXmlParserArgs; an option that is not given is NULL, NullTerm or FALSE.
Options(baseIRI, defaultGraph, allowDuplicateRdfIds) ==
  [baseIRI |-> baseIRI, defaultGraph |-> defaultGraph,
   allowDuplicateRdfIds |-> allowDuplicateRdfIds]

Vocabulary(names, attributes, texts, configurations) ==
  [names |-> names, attributes |-> attributes, texts |-> texts,
   configurations |-> configurations]

Vocabularies ==
  [ reification |->
      Vocabulary(
        { QName("rdf", "Description"), QName("ex", "T") },
        { Attribute(QName("rdf", "ID"), <<"a">>),
          Attribute(QName("rdf", "parseType"), <<"Resource">>),
          Attribute(QName("rdf", "parseType"), <<"Collection">>),
          Attribute(QName("rdf", "parseType"), <<"Literal">>),
          Attribute(QName("rdf", "resource"), <<"http://e/", "o">>),
          Attribute(QName("rdf", "nodeID"), <<"n">>),
          Attribute(QName("ex", "q"), <<"v">>) },
        { <<"x">> },
        { Options(<<"http://b/">>, NullTerm, FALSE) }),
    identifiers |->
      Vocabulary(
        { QName("ex", "T") },
        { Attribute(QName("rdf", "ID"), <<"a">>),
          Attribute(QName("rdf", "ID"), <<"b">>) },
        { <<"x">> },
        { Options(<<"http://b/">>, namedNode(<<"http://g/">>), FALSE),
          Options(<<"http://b/">>, NullTerm, TRUE) }),
    namespaces |->
      Vocabulary(
        { QName("ex", "T"), QName("p", "T"), <<"T">> },
        { Attribute(QName("xmlns", "p"), <<"http://d/">>),
          Attribute(<<"xmlns">>, <<"http://d/">>),
          Attribute(<<"xmlns">>, EMPTY),
          Attribute(QName("p", "q"), <<"v">>) },
        { <<"x">> },
        { Options(<<"http://b/">>, NullTerm, FALSE) }),
    base |->
      Vocabulary(
        { QName("ex", "T") },
        { Attribute(QName("xml", "base"), <<"http://c/">>),
          Attribute(QName("rdf", "about"), <<"s">>),
          Attribute(QName("rdf", "resource"), <<"o">>),
          Attribute(QName("rdf", "datatype"), <<"t">>),
          Attribute(QName("rdf", "ID"), <<"a">>) },
        { <<"x">> },
        { Options(<<"http://b/">>, NullTerm, FALSE) }),
    text |->
      Vocabulary(
        { QName("ex", "T") },
        { Attribute(QName("xml", "lang"), <<"EN">>),
          Attribute(QName("rdf", "parseType"), <<"Literal">>),
          Attribute(QName("rdf", "nodeID"), <<"n">>) },
        { <<"x", "y">>, <<"z">> },
        { Options(<<"http://b/">>, NullTerm, FALSE) }),
    empty |->
      Vocabulary(
        { QName("ex", "T") },
        { Attribute(QName("rdf", "resource"), EMPTY),
          Attribute(QName("rdf", "about"), EMPTY),
          Attribute(QName("rdf", "parseType"), <<"Resource">>),
          Attribute(QName("rdf", "parseType"), <<"Collection">>) },
        { <<"x">> },
        { Options(<<"http://b/">>, NullTerm, FALSE),
          Options(NULL, NullTerm, FALSE) }),
    collection |->
      Vocabulary(
        { QName("ex", "T") },
        { Attribute(QName("rdf", "parseType"), <<"Collection">>),
          Attribute(QName("rdf", "about"), <<"s">>),
          Attribute(QName("rdf", "nodeID"), <<"n">>),
          Attribute(QName("rdf", "ID"), <<"a">>) },
        { <<"x">> },
        { Options(<<"http://b/">>, NullTerm, FALSE) }),
    literal |->
      Vocabulary(
        { QName("ex", "T"), QName("u", "T") },
        { Attribute(QName("rdf", "parseType"), <<"Literal">>),
          Attribute(QName("rdf", "ID"), <<"a">>),
          Attribute(QName("rdf", "about"), <<"s">>),
          Attribute(QName("u", "q"), <<"v">>) },
        { <<"x">> },
        { Options(<<"http://b/">>, NullTerm, FALSE) }),
    items |->
      Vocabulary(
        { QName("rdf", "li"), QName("ex", "T"), QName("rdf", "RDF") },
        { Attribute(QName("rdf", "parseType"), <<"Resource">>) },
        { <<"x">> },
        { Options(<<"http://b/">>, NullTerm, FALSE) }),
    subjects |->
      Vocabulary(
        { QName("ex", "T") },
        { Attribute(QName("rdf", "about"), EMPTY),
          Attribute(QName("rdf", "about"), <<"s">>),
          Attribute(QName("rdf", "ID"), <<"a">>),
          Attribute(QName("rdf", "nodeID"), <<"n">>) },
        { <<"x">> },
        { Options(<<"http://b/">>, NullTerm, FALSE) }),
    other |->
      Vocabulary(
        { QName("ex", "T") },
        { Attribute(QName("rdf", "parseType"), <<"Other">>),
          Attribute(QName("rdf", "datatype"), <<"t">>),
          Attribute(QName("rdf", "resource"), <<"o">>),
          Attribute(QName("rdf", "nodeID"), <<"n">>),
          Attribute(QName("ex", "q"), <<"v">>) },
        { <<"x">> },
        { Options(<<"http://b/">>, NullTerm, FALSE) }),
    unsupported |->
      Vocabulary(
        { QName("ex", "T") },
        { Attribute(QName("rdf", "bagID"), <<"v">>),
          Attribute(QName("rdf", "aboutEach"), <<"v">>),
          Attribute(QName("rdf", "aboutEachPrefix"), <<"v">>),
          Attribute(QName("rdf", "li"), <<"v">>) },
        { <<"x">> },
        { Options(<<"http://b/">>, NullTerm, FALSE) }),
    forbidden |->
      Vocabulary(
        { QName("rdf", "RDF"), QName("rdf", "Description"), QName("rdf", "li"),
          QName("rdf", "about"), QName("ex", "T") },
        { Attribute(QName("rdf", "parseType"), <<"Resource">>) },
        { <<"x">> },
        { Options(<<"http://b/">>, NullTerm, FALSE) }),
    deferred |->
      Vocabulary(
        { QName("ex", "T") },
        { Attribute(QName("ex", "q"), <<"v">>),
          Attribute(QName("rdf", "resource"), <<"o">>),
          Attribute(QName("rdf", "nodeID"), <<"n">>),
          Attribute(QName("rdf", "about"), <<"s">>) },
        { <<"x">> },
        { Options(<<"http://b/">>, NullTerm, FALSE) }),
    node |->
      Vocabulary(
        { QName("ex", "T"), QName("rdf", "Description") },
        { Attribute(QName("ex", "q"), <<"v">>),
          Attribute(QName("ex", "r"), <<"w">>),
          Attribute(QName("rdf", "type"), <<"http://e/", "C">>),
          Attribute(QName("rdf", "parseType"), <<"Collection">>),
          Attribute(QName("rdf", "ID"), <<"a">>) },
        { <<"x">> },
        { Options(<<"http://b/">>, NullTerm, FALSE) }),
    instances |->
      Vocabulary(
        { QName("ex", "T"), QName("p", "T") },
        { Attribute(QName("rdf", "ID"), <<"a">>),
          Attribute(QName("xmlns", "p"), <<"http://p/">>) },
        { <<"x">> },
        { Options(<<"http://b/">>, NullTerm, FALSE) }),
    declarations |->
      Vocabulary(
        { QName("ex", "T") },
        { Attribute(QName("rdf", "datatype"), <<"t">>),
          Attribute(QName("xmlns", "p"), <<"http://p/">>),
          Attribute(<<"xmlns">>, <<"http://d/">>) },
        { <<"x">> },
        { Options(<<"http://b/">>, NullTerm, FALSE) }),
    scope |->
      Vocabulary(
        { QName("ex", "T") },
        { Attribute(QName("xml", "lang"), <<"EN">>),
          Attribute(QName("xml", "lang"), EMPTY),
          Attribute(QName("xml", "base"), <<"http://c/">>),
          Attribute(QName("rdf", "about"), <<"s">>),
          Attribute(QName("rdf", "datatype"), <<"t">>),
          Attribute(QName("ex", "q"), <<"v">>) },
        { <<"x">> },
        { Options(<<"http://b/">>, NullTerm, FALSE) }) ]

\* The vocabularies of the documents of Spec, and those of the documents of
\* SpecConstructs, which hold one construct of the syntax each.
Documents ==
  { "reification", "identifiers", "namespaces", "base", "text", "empty" }

Constructs ==
  { "collection", "literal", "items", "subjects", "other", "unsupported" }

\* The vocabularies of the documents of SpecValues: names, values and scopes.
Values == { "forbidden", "deferred", "node", "scope", "declarations" }

\* The sequences of at most n attributes of the pool, no key twice.
RECURSIVE AttributeLists(_, _)
AttributeLists(pool, n) ==
  IF n <= 0 THEN { << >> }
  ELSE { list \in AttributeLists(pool, n - 1) \cup
                  { Append(list, attribute) :
                      list \in AttributeLists(pool, n - 1), attribute \in pool } :
           \A i, j \in 1..Len(list) : list[i].key = list[j].key => i = j }

Count(events, type) ==
  Cardinality({ i \in 1..Len(events) : events[i].type = type })

\* The tags the tokenizer has open.
OpenTags(events) == Count(events, "opentag") - Count(events, "closetag")

RECURSIVE AttributesFrom(_, _)
AttributesFrom(events, i) ==
  IF i > Len(events) THEN 0
  ELSE Len(events[i].tag.attributes) + AttributesFrom(events, i + 1)

\* The attributes of the document so far, the root's declarations apart.
AttributesUsed(events) ==
  IF Count(events, "opentag") > 0
  THEN AttributesFrom(events, 1) - Len(RootDeclarations)
  ELSE 0

\* The ways the chunks cut a text node: at the end of a chunk the tokenizer
\* hands over the text it holds once that text is longer than its buffer
\* limit, so a long text node in two chunks may come as two text events.
Pieces(text) ==
  { <<text>> } \cup
  { << SubSeq(text, 1, k), SubSeq(text, k + 1, Len(text)) >> :
      k \in 1..(Len(text) - 1) }

VARIABLES
  parsers,     \* the RdfXmlParser instances, all given the same document
  chunked,     \* the instances that are given the document in chunks
  options,     \* the options the instances were constructed with
  fed,         \* the events of the document so far
  refused,     \* the writes refused after the stream was destroyed
  vocabulary   \* the vocabulary of the document

vars == <<parsers, chunked, options, fed, refused, vocabulary>>

parser == parsers[1]

\* One instance, given the document as a whole.
Init ==
  /\ vocabulary \in Documents
  /\ options \in Vocabularies[vocabulary].configurations
  /\ parsers = << RdfXmlParser(options.baseIRI, options.defaultGraph,
                               options.allowDuplicateRdfIds, 1) >>
  /\ chunked = {}
  /\ fed = << >>
  /\ refused = 0

Started == Count(fed, "opentag") > 0
Ended == Started /\ OpenTags(fed) = 0

\* The document goes on with event while no instance has been destroyed.
Feed(event) ==
  /\ ~parser.destroyed
  /\ Len(fed) < MaxEvents
  /\ fed' = Append(fed, event)
  /\ UNCHANGED <<chunked, options, refused, vocabulary>>

\* The root carries the declarations.
Declared(attributes) ==
  IF Started THEN attributes ELSE RootDeclarations \o attributes

WriteOpenTag ==
  /\ ~Ended
  /\ \E name \in Vocabularies[vocabulary].names :
     \E attributes \in AttributeLists(Vocabularies[vocabulary].attributes,
                         MaxAttributes - AttributesUsed(fed)) :
       /\ Feed(OpenTag(Tag(name, Declared(attributes))))
       /\ parsers' = [i \in DOMAIN parsers |->
            Transform(parsers[i],
                      onTag(parsers[i], Tag(name, Declared(attributes))))]

RECURSIVE WriteTexts(_, _, _)
\* One write for each piece of the text node.
WriteTexts(this, texts, k) ==
  IF k > Len(texts) THEN this
  ELSE WriteTexts(Transform(this, onText(this, texts[k])), texts, k + 1)

WriteText ==
  /\ Started /\ ~Ended
  /\ \E text \in Vocabularies[vocabulary].texts :
     \E pieces \in Pieces(text) :
       /\ Feed(Text(text))
       /\ parsers' = [i \in DOMAIN parsers |->
            WriteTexts(parsers[i],
                       IF i \in chunked THEN pieces ELSE <<text>>, 1)]

WriteCloseTag ==
  /\ OpenTags(fed) > 0
  /\ Feed(CloseTag)
  /\ parsers' = [i \in DOMAIN parsers |->
       Transform(parsers[i], onCloseTag(parsers[i]))]

WriteDoctype ==
  /\ fed = << >>
  /\ \E doctype \in { << [prefix |-> <<"e">>, uri |-> <<"http://e/">>] >> } :
       /\ Feed(Doctype(doctype))
       /\ parsers' = [i \in DOMAIN parsers |->
            Transform(parsers[i], onDoctype(parsers[i], doctype))]

\* A write to a destroyed stream: _transform is not called.
WriteRefused ==
  /\ parser.destroyed
  /\ refused < MaxRefused
  /\ parsers' = [i \in DOMAIN parsers |->
       Transform(parsers[i], onCloseTag(parsers[i]))]
  /\ refused' = refused + 1
  /\ UNCHANGED <<chunked, options, fed, vocabulary>>

Next ==
  \/ WriteOpenTag
  \/ WriteText
  \/ WriteCloseTag
  \/ WriteDoctype
  \/ WriteRefused

Spec == Init /\ [][Next]_vars

(***************************************************************************)
(* What the documents hold, read from the events alone.                    *)
(***************************************************************************)
HasAttribute(tag, key) ==
  \E i \in 1..Len(tag.attributes) : tag.attributes[i].key = key

HasAttributeValue(tag, key, value) ==
  \E i \in 1..Len(tag.attributes) :
    tag.attributes[i].key = key /\ tag.attributes[i].value = value

\* The open tags of the document, in document order.
Elements(events) == SelectSeq(events, LAMBDA event : event.type = "opentag")

\* The elements that carry the attribute.
Carrying(events, key) ==
  { i \in 1..Len(Elements(events)) : HasAttribute(Elements(events)[i].tag, key) }

LastEvent == fed[Len(fed)]

\* The quad as emitTriple builds it, in the graph of the instance.
Quad(subject, predicate, object) ==
  quad(subject, predicate, object, parser.defaultGraph)

rdf(local) == namedNode(RDF \o <<local>>)

\* The named node of rdf:ID="a" under the base http://b/.
StatementA == namedNode(<<"http://b/", "#", "a">>)

(***************************************************************************)
(* C1: a property element that carries rdf:ID gives one asserted quad      *)
(* (s, p, o) followed by the four quads (r, rdf:type, rdf:Statement),      *)
(* (r, rdf:subject, s), (r, rdf:predicate, p), (r, rdf:object, o), and no  *)
(* other quad has the subject r.  The element is the first child of the    *)
(* root, the only element with rdf:ID, in a document read to its end       *)
(* without an error.                                                       *)
(***************************************************************************)
C1_Case ==
  /\ vocabulary = "reification"
  /\ Ended
  /\ parser.errors = 0
  /\ Carrying(fed, QName("rdf", "ID")) = {2}

C1_ReificationFanOut ==
  C1_Case =>
    \E k \in 1..Len(parser.pushed) :
      /\ k + 4 <= Len(parser.pushed)
      /\ SubSeq(parser.pushed, k + 1, k + 4) =
           << Quad(StatementA, rdf("type"), rdf("Statement")),
              Quad(StatementA, rdf("subject"), parser.pushed[k].subject),
              Quad(StatementA, rdf("predicate"), parser.pushed[k].predicate),
              Quad(StatementA, rdf("object"), parser.pushed[k].object) >>
      /\ \A j \in 1..Len(parser.pushed) :
           parser.pushed[j].subject = StatementA => j \in (k + 1)..(k + 4)

(***************************************************************************)
(* C2: with allowDuplicateRdfIds unset, a document in which two elements   *)
(* carry rdf:ID with the same value has raised an error once both have     *)
(* been read; with allowDuplicateRdfIds set, rdf:ID raises no error.       *)
(***************************************************************************)
SameIdTwice ==
  \E value \in { <<"a">>, <<"b">> } :
    Cardinality({ i \in 1..Len(Elements(fed)) :
                    HasAttributeValue(Elements(fed)[i].tag,
                                      QName("rdf", "ID"), value) }) >= 2

C2_DuplicateIdRaises ==
  vocabulary = "identifiers" =>
    /\ (~options.allowDuplicateRdfIds /\ SameIdTwice) => parser.errors = 1
    /\ options.allowDuplicateRdfIds => parser.errors = 0

(***************************************************************************)
(* C3: once a handler has raised an error, the error has been reported     *)
(* once, and no later write emits a quad, reports an error or touches the  *)
(* stack the failed handler left.                                          *)
(***************************************************************************)
C3_ErrorStopsOutput ==
  [][ /\ parser'.errors <= 1
      /\ parser.errors > 0 =>
           /\ parser'.pushed = parser.pushed
           /\ parser'.errors = parser.errors
           /\ parser'.activeTagStack = parser.activeTagStack ]_vars

\* An error after a quad was emitted, and a write offered after the error.
C3_Witness ==
  /\ parser.errors = 1
  /\ parser.pushed # << >>
  /\ refused = 1

(***************************************************************************)
(* C4: on the namespace stack of every frame, expandPrefixedTerm gives a   *)
(* prefix, the empty default prefix included, the value bound by the       *)
(* innermost map that defines it, the empty string included.               *)
(***************************************************************************)
Prefixed(prefix) == IF prefix = EMPTY THEN <<"l">> ELSE prefix \o <<":", "l">>

Innermost(ns, prefix) ==
  CHOOSE k \in 1..Len(ns) :
    /\ prefix \in DOMAIN ns[k]
    /\ \A j \in (k + 1)..Len(ns) : prefix \notin DOMAIN ns[j]

C4_InnermostBindingWins ==
  \A f \in 1..Depth(parser) :
  \A prefix \in { EMPTY, <<"p">>, <<"ex">>, <<"rdf">>, <<"xml">> } :
    LET ns == parser.activeTagStack[f].ns
    IN (\E k \in 1..Len(ns) : prefix \in DOMAIN ns[k]) =>
         expandPrefixedTerm(Prefixed(prefix), ns).uri =
           ns[Innermost(ns, prefix)][prefix]

(***************************************************************************)
(* C5: the prefix p is bound on the frame on top of the stack exactly when *)
(* xmlns:p stands on an element that is open; an element that uses p while *)
(* no open element declares it raises an error; and no write changes the   *)
(* namespace stack of a frame that stays on the stack.                     *)
(***************************************************************************)
RECURSIVE OpenElements(_, _, _)
\* The tags of the elements that are open after the events.
OpenElements(events, i, open) ==
  IF i > Len(events) THEN open
  ELSE OpenElements(events, i + 1,
         CASE events[i].type = "opentag" -> Append(open, events[i].tag)
           [] events[i].type = "closetag" -> SubSeq(open, 1, Len(open) - 1)
           [] OTHER -> open)

InScope(prefix) ==
  \E i \in 1..Len(OpenElements(fed, 1, << >>)) :
    HasAttribute(OpenElements(fed, 1, << >>)[i], <<"xmlns", ":">> \o prefix)

HasPrefix(term, prefix) ==
  /\ Len(term) > Len(prefix)
  /\ SubSeq(term, 1, Len(prefix) + 1) = prefix \o <<":">>

UsesPrefix(tag, prefix) ==
  \/ HasPrefix(tag.name, prefix)
  \/ \E i \in 1..Len(tag.attributes) : HasPrefix(tag.attributes[i].key, prefix)

C5_Scoped ==
  vocabulary = "namespaces" =>
    /\ (parser.errors = 0 /\ Depth(parser) > 0) =>
         (InScope(<<"p">>) <=>
            ~expandPrefixedTerm(Prefixed(<<"p">>), Top(parser).ns).thrown)
    /\ (fed # << >> /\ LastEvent.type = "opentag"
        /\ UsesPrefix(LastEvent.tag, <<"p">>) /\ ~InScope(<<"p">>)) =>
         parser.errors = 1

C5_ParentKept ==
  \A f \in 1..Depth(parser) :
    f <= Depth(parser') =>
      parser'.activeTagStack[f].ns = parser.activeTagStack[f].ns

C5_NamespaceScoping == [] C5_Scoped /\ [][C5_ParentKept]_vars

\* A second child uses p, which the first child, now closed, had bound.
C5_Witness ==
  /\ vocabulary = "namespaces"
  /\ Len(fed) = 4
  /\ fed[2].type = "opentag"
  /\ HasAttribute(fed[2].tag, QName("xmlns", "p"))
  /\ fed[3].type = "closetag"
  /\ fed[4].type = "opentag"
  /\ UsesPrefix(fed[4].tag, <<"p">>)
  /\ parser.errors = 1

(***************************************************************************)
(* C6: an element that carries xml:base="http://c/" resolves its own       *)
(* rdf:resource against that base.  The element is the first child of the  *)
(* root, a property element.                                               *)
(***************************************************************************)
C6_BaseOnElement ==
  ( /\ vocabulary = "base"
    /\ parser.errors = 0
    /\ Len(Elements(fed)) = 2
    /\ LastEvent.type = "opentag"
    /\ HasAttributeValue(LastEvent.tag, QName("xml", "base"), <<"http://c/">>)
    /\ HasAttributeValue(LastEvent.tag, QName("rdf", "resource"), <<"o">>) ) =>
    /\ parser.pushed # << >>
    /\ parser.pushed[Len(parser.pushed)].object = namedNode(<<"http://c/", "o">>)

\* One instance, given a document that holds one construct.
InitConstructs ==
  /\ vocabulary \in Constructs
  /\ options \in Vocabularies[vocabulary].configurations
  /\ parsers = << RdfXmlParser(options.baseIRI, options.defaultGraph,
                               options.allowDuplicateRdfIds, 1) >>
  /\ chunked = {}
  /\ fed = << >>
  /\ refused = 0

SpecConstructs == InitConstructs /\ [][Next]_vars

\* One instance, given a document of names, values and scopes.
InitValues ==
  /\ vocabulary \in Values
  /\ options \in Vocabularies[vocabulary].configurations
  /\ parsers = << RdfXmlParser(options.baseIRI, options.defaultGraph,
                               options.allowDuplicateRdfIds, 1) >>
  /\ chunked = {}
  /\ fed = << >>
  /\ refused = 0

SpecValues == InitValues /\ [][Next]_vars

(***************************************************************************)
(* C7: two instances are given the same document, the first as a whole,    *)
(* the second in chunks that cut its text nodes; they emit the same quads  *)
(* and report the same errors.                                             *)
(***************************************************************************)
InitChunked ==
  /\ vocabulary = "text"
  /\ options \in Vocabularies[vocabulary].configurations
  /\ parsers = << RdfXmlParser(options.baseIRI, options.defaultGraph,
                               options.allowDuplicateRdfIds, 1),
                  RdfXmlParser(options.baseIRI, options.defaultGraph,
                               options.allowDuplicateRdfIds, 1) >>
  /\ chunked = {2}
  /\ fed = << >>
  /\ refused = 0

SpecChunked == InitChunked /\ [][Next]_vars

C7_ChunkingInvariance ==
  /\ parsers[2].pushed = parsers[1].pushed
  /\ parsers[2].errors = parsers[1].errors

(***************************************************************************)
(* C8: two runs on the same events with the same options, the data factory *)
(* minting other labels in the second, emit the same quads in the same     *)
(* order up to the labels of the minted blank nodes, and raise an error at *)
(* the same event or not at all.                                           *)
(***************************************************************************)
InitRuns ==
  /\ vocabulary \in { "empty", "text" }
  /\ options \in Vocabularies[vocabulary].configurations
  /\ parsers = << RdfXmlParser(options.baseIRI, options.defaultGraph,
                               options.allowDuplicateRdfIds, 1),
                  RdfXmlParser(options.baseIRI, options.defaultGraph,
                               options.allowDuplicateRdfIds, 5) >>
  /\ chunked = {}
  /\ fed = << >>
  /\ refused = 0

SpecRuns == InitRuns /\ [][Next]_vars

\* The term with a minted label counted from the first label of the run.
Unlabelled(term, first) ==
  IF term.termType = "BlankNode" /\ term.id # 0
  THEN [term EXCEPT !.id = @ - first + 1]
  ELSE term

UnlabelledQuads(quads, first) ==
  [k \in 1..Len(quads) |->
     quad(Unlabelled(quads[k].subject, first),
          Unlabelled(quads[k].predicate, first),
          Unlabelled(quads[k].object, first),
          quads[k].graph)]

C9_GraphIsDefaultGraph ==
  \A k \in 1..Len(parser.pushed) :
    parser.pushed[k].graph =
      IF options.defaultGraph # NullTerm THEN options.defaultGraph
      ELSE factoryDefaultGraph

\* A reification emitted under a defaultGraph option.
C9_Witness ==
  /\ options.defaultGraph = namedNode(<<"http://g/">>)
  /\ \E k \in 1..Len(parser.pushed) :
       /\ parser.pushed[k].predicate = rdf("subject")
       /\ parser.pushed[k].graph = namedNode(<<"http://g/">>)

(***************************************************************************)
(* C10: every quad emitted so far has a named node or a blank node as its  *)
(* subject and a named node as its predicate.                              *)
(***************************************************************************)
C10_SubjectAndPredicateAreNodes ==
  \A k \in 1..Len(parser.pushed) :
    /\ parser.pushed[k].subject.termType \in { "NamedNode", "BlankNode" }
    /\ parser.pushed[k].predicate.termType = "NamedNode"

(***************************************************************************)
(* C11: a property element (s, p) with rdf:parseType="Collection" and k    *)
(* child node elements x1..xk has emitted the list quads (s, p, c1), then  *)
(* (ci, rdf:first, xi) with (ci, rdf:rest, c(i+1)) between them, and at its *)
(* close (ck, rdf:rest, rdf:nil), or (s, p, rdf:nil) alone when k = 0; the *)
(* cells are fresh blank nodes, pairwise distinct, and of the asserted     *)
(* quads the link to ci is the one just before (ci, rdf:first, xi).  The   *)
(* element is the only child of the root and the only collection.          *)
(***************************************************************************)
RECURSIVE ElementDepths(_, _, _, _)
\* The depth of every element of the document, in document order.
ElementDepths(events, i, depth, depths) ==
  IF i > Len(events) THEN depths
  ELSE CASE events[i].type = "opentag" ->
              ElementDepths(events, i + 1, depth + 1, Append(depths, depth + 1))
         [] events[i].type = "closetag" ->
              ElementDepths(events, i + 1, depth - 1, depths)
         [] OTHER -> ElementDepths(events, i + 1, depth, depths)

\* The elements at the depth, as indexes of Elements(events).
AtDepth(events, depth) ==
  { j \in 1..Len(Elements(events)) :
      ElementDepths(events, 1, 0, << >>)[j] = depth }

\* The tags of the elements at the depth, in document order.
TagsAtDepth(events, depth) ==
  SelectSeq([j \in 1..Len(Elements(events)) |->
               [tag |-> Elements(events)[j].tag,
                depth |-> ElementDepths(events, 1, 0, << >>)[j]]],
            LAMBDA element : element.depth = depth)

\* The subject rdf:about, rdf:ID or rdf:nodeID give a node element under the
\* base http://b/; a blank node of the factory otherwise.
IsSubjectOf(term, tag) ==
  CASE HasAttributeValue(tag, QName("rdf", "about"), <<"s">>) ->
         term = namedNode(<<"http://b/", "s">>)
    [] HasAttributeValue(tag, QName("rdf", "ID"), <<"a">>) ->
         term = StatementA
    [] HasAttributeValue(tag, QName("rdf", "nodeID"), <<"n">>) ->
         term = blankNode(<<"n">>)
    [] OTHER -> term.termType = "BlankNode" /\ term.id > 0

IsReification(q) ==
  /\ q.subject = StatementA
  /\ \/ q.predicate \in { rdf("subject"), rdf("predicate"), rdf("object") }
     \/ q.predicate = rdf("type") /\ q.object = rdf("Statement")

\* The quads emitted so far, those of reifications apart.
Asserted == SelectSeq(parser.pushed, LAMBDA q : ~IsReification(q))

RootSubject == mintedBlankNode(1)
PredicateT == namedNode(<<"http://e/", "T">>)

ListQuads ==
  SelectSeq(Asserted,
            LAMBDA q : \/ q.predicate \in { rdf("first"), rdf("rest") }
                       \/ q.subject = RootSubject /\ q.predicate = PredicateT)

C11_Case ==
  /\ vocabulary = "collection"
  /\ parser.errors = 0
  /\ Carrying(fed, QName("rdf", "parseType")) = {2}
  /\ Cardinality(AtDepth(fed, 2)) = 1

C11_Closed == OpenTags(fed) < 2

C11_Cells(L, items) ==
  /\ Len(L) = 2 * Len(items) + (IF C11_Closed THEN 1 ELSE 0)
  /\ \A i \in 1..Len(items) :
       /\ L[2 * i - 1].subject = (IF i = 1 THEN RootSubject ELSE L[2 * i - 2].subject)
       /\ L[2 * i - 1].predicate = (IF i = 1 THEN PredicateT ELSE rdf("rest"))
       /\ L[2 * i - 1].object = L[2 * i].subject
       /\ L[2 * i].subject.termType = "BlankNode"
       /\ L[2 * i].subject.id > 0
       /\ L[2 * i].subject # RootSubject
       /\ L[2 * i].predicate = rdf("first")
       /\ IsSubjectOf(L[2 * i].object, items[i].tag)
       /\ \A j \in 1..Len(items) :
            /\ L[2 * j].object # L[2 * i].subject
            /\ j # i => L[2 * j].subject # L[2 * i].subject
  /\ C11_Closed =>
       L[Len(L)] = IF Len(items) = 0
                   THEN Quad(RootSubject, PredicateT, rdf("nil"))
                   ELSE Quad(L[Len(L) - 1].subject, rdf("rest"), rdf("nil"))

C11_LinkedJustBefore ==
  \A j \in 1..Len(Asserted) :
    Asserted[j].predicate = rdf("first") =>
      /\ j > 1
      /\ Asserted[j - 1].object = Asserted[j].subject
      /\ \/ Asserted[j - 1].predicate = rdf("rest")
         \/ Asserted[j - 1].subject = RootSubject
            /\ Asserted[j - 1].predicate = PredicateT

NotReifications(quads) == SelectSeq(quads, LAMBDA q : ~IsReification(q))

RECURSIVE OpenIndexes(_, _, _)
\* The positions in the events of the open tags of the elements still open.
OpenIndexes(events, i, open) ==
  IF i > Len(events) THEN open
  ELSE OpenIndexes(events, i + 1,
         CASE events[i].type = "opentag" -> Append(open, i)
           [] events[i].type = "closetag" -> SubSeq(open, 1, Len(open) - 1)
           [] OTHER -> open)

RECURSIVE Markup(_, _)
Markup(attributes, i) ==
  IF i > Len(attributes) THEN << >>
  ELSE <<" ">> \o attributes[i].key \o <<"=\"">> \o attributes[i].value
       \o <<"\"">> \o Markup(attributes, i + 1)

RECURSIVE Lexical(_, _, _)
\* The events from i on as markup; names are the elements open among them.
Lexical(events, i, names) ==
  IF i > Len(events) THEN << >>
  ELSE CASE events[i].type = "opentag" ->
              <<"<">> \o events[i].tag.name \o Markup(events[i].tag.attributes, 1)
              \o <<">">> \o Lexical(events, i + 1, Append(names, events[i].tag.name))
         [] events[i].type = "text" ->
              events[i].text \o Lexical(events, i + 1, names)
         [] events[i].type = "closetag" ->
              <<"</">> \o names[Len(names)] \o <<">">>
              \o Lexical(events, i + 1, SubSeq(names, 1, Len(names) - 1))
         [] OTHER -> Lexical(events, i + 1, names)

XMLLiteral(value) == Term("Literal", value, 0, NULL, RDF \o <<"XMLLiteral">>)

C12_Captured(f) ==
  IF Depth(parser') >= f
  THEN /\ parser'.pushed = parser.pushed
       /\ parser'.nodeIds = parser.nodeIds
       /\ parser'.errors = parser.errors
  ELSE /\ parser'.errors = parser.errors
       /\ parser'.nodeIds = parser.nodeIds
       /\ NotReifications(parser'.pushed) =
            NotReifications(parser.pushed) \o
              << Quad(parser.activeTagStack[f].subject,
                      parser.activeTagStack[f].predicate,
                      XMLLiteral(Lexical(fed,
                        OpenIndexes(fed, 1, << >>)[f] + 1, << >>))) >>

C12_LiteralCapture ==
  [][ \A f \in 1..Depth(parser) :
        (parser.activeTagStack[f].childrenTagsToString /\ parser.errors = 0)
          => C12_Captured(f) ]_vars

\* The literal of an element with a descendant that carries rdf:ID and a text.
C12_Witness ==
  /\ vocabulary = "literal"
  /\ parser.errors = 0
  /\ Carrying(fed, QName("rdf", "ID")) = {3}
  /\ \E k \in 1..Len(parser.pushed) :
       /\ parser.pushed[k].object.datatype = RDF \o <<"XMLLiteral">>
       /\ \E i \in 1..Len(parser.pushed[k].object.value) :
            parser.pushed[k].object.value[i] = "x"

(***************************************************************************)
(* The elements of a document as the syntax reads them: the root is a node *)
(* element, the children of a node element are property elements, those of *)
(* a property element node elements; the children of rdf:RDF at the root   *)
(* are node elements, those of rdf:parseType="Resource" property elements, *)
(* and whatever stands below rdf:parseType="Literal" is markup.            *)
(***************************************************************************)
ChildKind(kind, tag, depth) ==
  CASE kind = "markup" -> "markup"
    [] kind = "node" ->
         IF depth = 1 /\ tag.name = QName("rdf", "RDF") THEN "node"
         ELSE "property"
    [] OTHER ->
         IF HasAttributeValue(tag, QName("rdf", "parseType"), <<"Literal">>)
         THEN "markup"
         ELSE IF HasAttributeValue(tag, QName("rdf", "parseType"), <<"Resource">>)
              THEN "property"
              ELSE "node"

RECURSIVE Structure(_, _, _, _)
\* elements: [kind, parent, tag] of every element in document order, parent
\* an index of elements, 0 for the root; open: the indexes of the open ones.
Structure(events, i, open, elements) ==
  IF i > Len(events) THEN [open |-> open, elements |-> elements]
  ELSE CASE events[i].type = "opentag" ->
              Structure(events, i + 1, Append(open, Len(elements) + 1),
                Append(elements,
                  [ kind |-> IF open = << >> THEN "node"
                             ELSE ChildKind(elements[open[Len(open)]].kind,
                                            elements[open[Len(open)]].tag,
                                            Len(open)),
                    parent |-> IF open = << >> THEN 0 ELSE open[Len(open)],
                    tag |-> events[i].tag ]))
         [] events[i].type = "closetag" ->
              Structure(events, i + 1, SubSeq(open, 1, Len(open) - 1), elements)
         [] OTHER -> Structure(events, i + 1, open, elements)

Document == Structure(fed, 1, << >>, << >>)

\* The last event opened an element of the kind, and no error was raised.
Opened(kind) ==
  /\ fed # << >>
  /\ LastEvent.type = "opentag"
  /\ parser.errors = 0
  /\ Document.elements[Len(Document.elements)].kind = kind

(***************************************************************************)
(* C13: the k-th rdf:li property element among the children of an element  *)
(* has the predicate rdf:_k, k counting from 1 the rdf:li children of that *)
(* parent alone: not its other children, and not the rdf:li elements of    *)
(* other parents, nested ones included.                                    *)
(***************************************************************************)
\* The rdf:li property elements up to the last that have its parent.
ItemsBefore(elements) ==
  { j \in 1..Len(elements) :
      /\ elements[j].parent = elements[Len(elements)].parent
      /\ elements[j].kind = "property"
      /\ elements[j].tag.name = QName("rdf", "li") }

\* The predicate of the element just opened: that of its frame, or of the
\* quad rdf:parseType="Resource" emitted for it.
PredicateOpened ==
  IF HasAttributeValue(LastEvent.tag, QName("rdf", "parseType"), <<"Resource">>)
  THEN parser.pushed[Len(parser.pushed)].predicate
  ELSE Top(parser).predicate

C13_ListItems ==
  (Opened("property") /\ LastEvent.tag.name = QName("rdf", "li")) =>
    PredicateOpened =
      namedNode(RDF \o <<"_", ToString(Cardinality(ItemsBefore(Document.elements)))>>)

\* The second rdf:li of the root, after a first one that held an rdf:li.
C13_Witness ==
  /\ Opened("property")
  /\ Len(fed) = 6
  /\ fed[2].type = "opentag" /\ fed[2].tag.name = QName("rdf", "li")
  /\ fed[3].type = "opentag" /\ fed[3].tag.name = QName("rdf", "li")
  /\ fed[6].tag.name = QName("rdf", "li")
  /\ Top(parser).predicate = namedNode(RDF \o <<"_", "2">>)

(***************************************************************************)
(* C14: the handler that runs for an open tag is the one the frame on top  *)
(* of the stack selects: markup below an XML literal, else the handler of  *)
(* node elements when its childrenParseType is RESOURCE or the stack is    *)
(* empty, else that of property elements; and this is the kind the syntax  *)
(* gives the element: children of node elements are property elements and  *)
(* children of property elements node elements, but for the children of    *)
(* rdf:RDF at the root and of rdf:parseType="Resource".                    *)
(***************************************************************************)
\* The kind the frame on top of the stack selects for the next element.
Selected(this) ==
  IF Depth(this) = 0 THEN "node"
  ELSE IF Top(this).childrenStringTags # 0 THEN "markup"
       ELSE IF Top(this).childrenParseType = "RESOURCE" THEN "node"
            ELSE "property"

\* The kind the syntax gives the next element of the document.
Expected(document) ==
  IF document.open = << >> THEN "node"
  ELSE ChildKind(document.elements[document.open[Len(document.open)]].kind,
                 document.elements[document.open[Len(document.open)]].tag,
                 Len(document.open))

C14_Selected ==
  (parser.errors = 0 /\ ~Ended) => Selected(parser) = Expected(Document)

\* The instance after the handler of the kind has run for the tag.
Handled(kind, tag) ==
  CASE kind = "markup" -> StringTag(HadChildren(parser), tag)
    [] kind = "property" ->
         onTagProperty(Push(HadChildren(parser), ActiveTag(parser, tag)), tag)
    [] OTHER ->
         onTagResource(Push(HadChildren(parser), ActiveTag(parser, tag)), tag)

C14_Handled ==
  (Len(fed') = Len(fed) + 1 /\ fed'[Len(fed')].type = "opentag") =>
    parser' = Transform(parser, Handled(Selected(parser), fed'[Len(fed')].tag))

C14_Dispatch == [] C14_Selected /\ [][C14_Handled]_vars

\* A node element below rdf:RDF, and a property element below
\* rdf:parseType="Resource".
C14_Witness ==
  /\ Opened("property")
  /\ Len(fed) = 4
  /\ fed[1].tag.name = QName("rdf", "RDF")
  /\ fed[2].type = "opentag"
  /\ fed[3].type = "opentag"
  /\ HasAttribute(fed[3].tag, QName("rdf", "parseType"))
  /\ parser.pushed # << >>

(***************************************************************************)
(* C15: while the stack is not empty, the frame at its bottom has the      *)
(* baseIRI option as its baseIRI and no language, whatever the root        *)
(* element carries.                                                        *)
(***************************************************************************)
C15_RootFrameIsConfigured ==
  Depth(parser) > 0 =>
    /\ parser.activeTagStack[1].baseIRI = parser.baseIRI
    /\ parser.activeTagStack[1].language = NULL

(***************************************************************************)
(* C15, amended: once the root element has been read without an error, the *)
(* frame at the bottom of the stack has as its baseIRI the xml:base of the  *)
(* root element resolved against the baseIRI option, the option itself     *)
(* when the root carries no xml:base, and as its language the xml:lang of  *)
(* the root element in lower case, none when the root carries no xml:lang  *)
(* or an empty one; no descendant changes either.                          *)
(***************************************************************************)
AttributeValue(tag, key) ==
  tag.attributes[CHOOSE i \in 1..Len(tag.attributes) : tag.attributes[i].key = key].value

RootBase(tag) ==
  IF HasAttribute(tag, QName("xml", "base"))
  THEN resolve(AttributeValue(tag, QName("xml", "base")), parser.baseIRI).value
  ELSE parser.baseIRI

RootLanguage(tag) ==
  IF HasAttribute(tag, QName("xml", "lang"))
     /\ AttributeValue(tag, QName("xml", "lang")) # EMPTY
  THEN toLowerCase(AttributeValue(tag, QName("xml", "lang")))
  ELSE NULL

C15_RootFrameIsOfRoot ==
  (Depth(parser) > 0 /\ ~(parser.errors = 1 /\ Len(Elements(fed)) = 1)) =>
    /\ parser.activeTagStack[1].baseIRI = RootBase(Elements(fed)[1].tag)
    /\ parser.activeTagStack[1].language = RootLanguage(Elements(fed)[1].tag)

\* A root with xml:base, and below it a node element open.
C15_Witness ==
  /\ Depth(parser) = 3
  /\ parser.errors = 0
  /\ HasAttribute(Elements(fed)[1].tag, QName("xml", "base"))
  /\ parser.activeTagStack[1].baseIRI = <<"http://c/">>
  /\ parser.baseIRI = <<"http://b/">>

(***************************************************************************)
(* C16: when no handler has raised an error, every frame on the stack of   *)
(* a property element has a predicate, unless the element carries          *)
(* rdf:parseType="Resource": then it has none, its childrenParseType is    *)
(* PROPERTY and its subject is the blank node minted for it.               *)
(***************************************************************************)
IsMinted(term) == term.termType = "BlankNode" /\ term.id > 0

C16_Frame(activeTag, element) ==
  element.kind = "property" =>
    IF HasAttributeValue(element.tag, QName("rdf", "parseType"), <<"Resource">>)
    THEN /\ activeTag.predicate = NullTerm
         /\ activeTag.childrenParseType = "PROPERTY"
         /\ IsMinted(activeTag.subject)
    ELSE activeTag.predicate # NullTerm

C16_PropertyFramesHavePredicate ==
  parser.errors = 0 =>
    \A f \in 1..Depth(parser) :
      C16_Frame(parser.activeTagStack[f], Document.elements[Document.open[f]])

(***************************************************************************)
(* C17: the open tag of a node element that carries two or more of         *)
(* rdf:about, rdf:ID and rdf:nodeID raises an error and emits no quad.     *)
(***************************************************************************)
\* The write is the open tag of an element of the kind.
Opens(kind) ==
  /\ Len(fed') = Len(fed) + 1
  /\ fed'[Len(fed')].type = "opentag"
  /\ Expected(Document) = kind

Opening == fed'[Len(fed')].tag

SubjectAttributes(tag) ==
  { key \in { QName("rdf", "about"), QName("rdf", "ID"), QName("rdf", "nodeID") } :
      HasAttribute(tag, key) }

C17_TwoSubjectsRaise ==
  [][ (Opens("node") /\ Cardinality(SubjectAttributes(Opening)) >= 2) =>
        /\ parser'.errors = parser.errors + 1
        /\ parser'.pushed = parser.pushed ]_vars

(***************************************************************************)
(* C18: the open tag of a property element raises an error when it carries *)
(* rdf:parseType Resource, Collection or Literal with rdf:datatype,        *)
(* rdf:resource, rdf:nodeID or a property attribute, or rdf:resource with  *)
(* rdf:nodeID, or rdf:datatype with a property attribute.                  *)
(***************************************************************************)
\* An attribute with a prefix other than rdf, xml and xmlns.
HasPropertyAttribute(tag) ==
  \E i \in 1..Len(tag.attributes) :
    /\ Len(tag.attributes[i].key) = 3
    /\ tag.attributes[i].key[2] = ":"
    /\ tag.attributes[i].key[1] \notin { "rdf", "xml", "xmlns" }

HasParseType(tag) ==
  \E value \in { <<"Resource">>, <<"Collection">>, <<"Literal">> } :
    HasAttributeValue(tag, QName("rdf", "parseType"), value)

Conflicting(tag) ==
  \/ /\ HasParseType(tag)
     /\ \/ HasAttribute(tag, QName("rdf", "datatype"))
        \/ HasAttribute(tag, QName("rdf", "resource"))
        \/ HasAttribute(tag, QName("rdf", "nodeID"))
        \/ HasPropertyAttribute(tag)
  \/ /\ HasAttribute(tag, QName("rdf", "resource"))
     /\ HasAttribute(tag, QName("rdf", "nodeID"))
  \/ /\ HasAttribute(tag, QName("rdf", "datatype"))
     /\ HasPropertyAttribute(tag)

C18_ConflictsRaise ==
  [][ (Opens("property") /\ Conflicting(Opening)) =>
        parser'.errors = parser.errors + 1 ]_vars

(***************************************************************************)
(* C19: the open tag of a property element whose rdf:parseType is another  *)
(* value than Resource, Collection and Literal emits the quads and raises  *)
(* the errors of the same open tag without that attribute.                 *)
(***************************************************************************)
Without(tag, key) ==
  [tag EXCEPT !.attributes = SelectSeq(@, LAMBDA attribute : attribute.key # key)]

\* The instance has emitted and raised what the other has.
SameOutput(this, other) ==
  /\ this.pushed = other.pushed
  /\ this.errors = other.errors

C19_OtherParseTypeIgnored ==
  [][ ( /\ Opens("property")
        /\ HasAttributeValue(Opening, QName("rdf", "parseType"), <<"Other">>) ) =>
        SameOutput(parser',
          Transform(parser,
            Handled("property", Without(Opening, QName("rdf", "parseType"))))) ]_vars

(***************************************************************************)
(* C20: the open tag of an element that carries rdf:bagID, rdf:aboutEach   *)
(* or rdf:aboutEachPrefix raises an error, on a node element, the root     *)
(* included, and on a property element; so does rdf:li on a node element;  *)
(* and no quad has one of the first three as its predicate.                *)
(***************************************************************************)
Unsupported(kind) ==
  { QName("rdf", "bagID"), QName("rdf", "aboutEach"),
    QName("rdf", "aboutEachPrefix") }
    \cup (IF kind = "node" THEN { QName("rdf", "li") } ELSE {})

CarriesUnsupported(tag, kind) ==
  \E key \in Unsupported(kind) : HasAttribute(tag, key)

C20_Raised ==
  \A kind \in { "node", "property" } :
    (Opens(kind) /\ CarriesUnsupported(Opening, kind)) =>
      parser'.errors = parser.errors + 1

C20_NoQuad ==
  \A k \in 1..Len(parser.pushed) :
    parser.pushed[k].predicate \notin
      { rdf("bagID"), rdf("aboutEach"), rdf("aboutEachPrefix") }

C20_UnsupportedRaise == [] C20_NoQuad /\ [][C20_Raised]_vars

(***************************************************************************)
(* C21: the open tag of an element whose name is in the RDF namespace and  *)
(* in the forbidden set of its mode raises an error: for a node element    *)
(* RDF, ID, about, bagID, parseType, resource, nodeID, li, aboutEach and   *)
(* aboutEachPrefix, for a property element Description and the same names  *)
(* but li. The one exception is rdf:RDF as the root element: every other   *)
(* forbidden name is rejected at the root too, and rdf:RDF when nested.    *)
(***************************************************************************)
C21_Forbidden(kind) ==
  IF kind = "node"
  THEN { "RDF", "ID", "about", "bagID", "parseType", "resource", "nodeID",
         "li", "aboutEach", "aboutEachPrefix" }
  ELSE { "Description", "RDF", "ID", "about", "bagID", "parseType",
         "resource", "nodeID", "aboutEach", "aboutEachPrefix" }

\* The element being opened has a forbidden name of the kind.
C21_Case(kind) ==
  /\ Opens(kind)
  /\ parser.errors = 0
  /\ Opening.name[1] = "rdf"
  /\ Opening.name[3] \in C21_Forbidden(kind)
  /\ ~(Depth(parser) = 0 /\ Opening.name = QName("rdf", "RDF"))

C21_ForbiddenNamesRaise ==
  [][(C21_Case("node") \/ C21_Case("property")) => parser'.errors = 1]_vars

(***************************************************************************)
(* Two instances in one process, each given a document of its own, the     *)
(* events of the two documents interleaved: at most MaxEvents events and   *)
(* MaxAttributes attributes in the two together.  Neither is given a       *)
(* dataFactory, so both require the same module (line 69): the blank nodes *)
(* they mint come from one factory, which gives no label twice.            *)
(***************************************************************************)
Instances == { 1, 2 }

InitInstances ==
  /\ vocabulary = "instances"
  /\ options \in Vocabularies[vocabulary].configurations
  /\ parsers = << RdfXmlParser(options.baseIRI, options.defaultGraph,
                               options.allowDuplicateRdfIds, 1),
                  RdfXmlParser(options.baseIRI, options.defaultGraph,
                               options.allowDuplicateRdfIds, 1) >>
  /\ chunked = {}
  /\ fed = << >>
  /\ refused = 0

\* The event, written to the instance.
To(event, i) ==
  [type |-> event.type, tag |-> event.tag, text |-> event.text,
   doctype |-> event.doctype, to |-> i]

\* The events written to the instance so far.
Sent(i) == SelectSeq(fed, LAMBDA event : event.to = i)

\* An instance whose registry of node IDs is that of the process.
SharedRegistry(i) ==
  [parsers[i] EXCEPT
     !.blankNodeCounter =
        IF parsers[1].blankNodeCounter > parsers[2].blankNodeCounter
        THEN parsers[1].blankNodeCounter ELSE parsers[2].blankNodeCounter,
     !.nodeIds = parsers[1].nodeIds \cup parsers[2].nodeIds]

\* The instance as its handler finds it: its own fields (lines 58-59), and
\* the factory of the process, whose next label follows every label minted.
Shared(i) ==
  [parsers[i] EXCEPT
     !.blankNodeCounter =
        IF parsers[1].blankNodeCounter > parsers[2].blankNodeCounter
        THEN parsers[1].blankNodeCounter ELSE parsers[2].blankNodeCounter]

\* The listener of the event's type.
Deliver(this, event) ==
  CASE event.type = "opentag" -> onTag(this, event.tag)
    [] event.type = "text" -> onText(this, event.text)
    [] event.type = "closetag" -> onCloseTag(this)
    [] OTHER -> onDoctype(this, event.doctype)

\* The write of the event to the instance, while it has not been destroyed.
Send(i, event) ==
  /\ ~parsers[i].destroyed
  /\ Len(fed) < MaxEvents
  /\ fed' = Append(fed, To(event, i))
  /\ parsers' = [parsers EXCEPT
                   ![i] = Transform(Shared(i), Deliver(Shared(i), event))]
  /\ UNCHANGED <<chunked, options, refused, vocabulary>>

SendOpenTag(i) ==
  /\ ~(Count(Sent(i), "opentag") > 0 /\ OpenTags(Sent(i)) = 0)
  /\ \E name \in Vocabularies[vocabulary].names :
     \E attributes \in AttributeLists(Vocabularies[vocabulary].attributes,
                         MaxAttributes - AttributesUsed(Sent(1))
                                       - AttributesUsed(Sent(2))) :
       Send(i, OpenTag(Tag(name,
                 IF Count(Sent(i), "opentag") > 0 THEN attributes
                 ELSE RootDeclarations \o attributes)))

SendText(i) ==
  /\ OpenTags(Sent(i)) > 0
  /\ \E text \in Vocabularies[vocabulary].texts : Send(i, Text(text))

SendCloseTag(i) ==
  /\ OpenTags(Sent(i)) > 0
  /\ Send(i, CloseTag)

NextInstances ==
  \E i \in Instances :
    \/ SendOpenTag(i)
    \/ SendText(i)
    \/ SendCloseTag(i)

SpecInstances == InitInstances /\ [][NextInstances]_vars

RECURSIVE Run(_, _, _)
\* The instance after the events, written to it and to no other instance.
Run(this, events, k) ==
  IF k > Len(events) THEN this
  ELSE Run(Transform(this, Deliver(this, events[k])), events, k + 1)

\* The instance had it read its document alone.
Alone(i) ==
  Run(RdfXmlParser(options.baseIRI, options.defaultGraph,
                   options.allowDuplicateRdfIds, 1), Sent(i), 1)

\* The labels of the minted blank nodes of the quads.
Labels(quads) ==
  { quads[k].subject.id :
      k \in { j \in 1..Len(quads) : IsMinted(quads[j].subject) } } \cup
  { quads[k].object.id :
      k \in { j \in 1..Len(quads) : IsMinted(quads[j].object) } }

\* The term, a minted label replaced by its rank among the labels.
Ranked(term, labels) ==
  IF IsMinted(term)
  THEN [term EXCEPT !.id = Cardinality({ id \in labels : id <= term.id })]
  ELSE term

\* The quads up to the labels of the minted blank nodes.
RankedQuads(quads, labels) ==
  [k \in 1..Len(quads) |->
     [quads[k] EXCEPT !.subject = Ranked(quads[k].subject, labels),
                      !.object = Ranked(quads[k].object, labels)]]

\* The namespace stacks of the frames of the instance.
NamespaceStacks(this) == [f \in 1..Depth(this) |-> this.activeTagStack[f].ns]

(***************************************************************************)
(* C22: for every interleaving of the events of two documents written to   *)
(* two instances, each instance emits the same quads, labels of blank      *)
(* nodes included, and reports the same errors as when it reads its        *)
(* document alone.                                                         *)
(***************************************************************************)
C22_SameAsAlone(this, alone) ==
  /\ this.pushed = alone.pushed
  /\ this.errors = alone.errors

C22_IndependentInstances ==
  \A i \in Instances : C22_SameAsAlone(parsers[i], Alone(i))

(***************************************************************************)
(* C22, amended: for every interleaving of the events of two documents     *)
(* written to two instances, each instance emits the same quads up to the  *)
(* labels of the blank nodes it mints, and reports the same errors, as     *)
(* when it reads its document alone; its registry of node IDs and the      *)
(* namespace stacks of its frames are those of the run alone, so that an   *)
(* rdf:ID claimed in one instance raises no error in the other and a       *)
(* prefix bound in one is not bound in the other.                          *)
(***************************************************************************)
C22_SameUpToLabels(this, alone) ==
  /\ RankedQuads(this.pushed, Labels(this.pushed)) =
       RankedQuads(alone.pushed, Labels(alone.pushed))
  /\ this.errors = alone.errors
  /\ this.destroyed = alone.destroyed
  /\ this.nodeIds = alone.nodeIds
  /\ NamespaceStacks(this) = NamespaceStacks(alone)

C22_IndependentUpToLabels ==
  \A i \in Instances : C22_SameUpToLabels(parsers[i], Alone(i))

\* Both instances have claimed rdf:ID="a" on a property element below a root
\* that minted its subject, the events of the one between those of the
\* other, and neither has reported an error.
C22_Witness ==
  /\ Len(fed) = 4
  /\ fed[1].to = 1 /\ fed[2].to = 2 /\ fed[3].to = 1 /\ fed[4].to = 2
  /\ parsers[1].errors = 0 /\ parsers[2].errors = 0
  /\ parsers[1].nodeIds # {} /\ parsers[1].nodeIds = parsers[2].nodeIds
  /\ HasAttribute(fed[3].tag, QName("rdf", "ID"))
  /\ HasAttribute(fed[4].tag, QName("rdf", "ID"))
  /\ Labels(parsers[1].pushed) = {1}
  /\ Labels(parsers[2].pushed) = {2}

(***************************************************************************)
(* C23: for a property element without rdf:parseType, the close emits      *)
(* quads only if no quad (s, p, o) was emitted for it before, at its open  *)
(* for rdf:resource or rdf:nodeID or at the open of a child node element;  *)
(* and in a run without an error the pair of a property attribute is       *)
(* emitted exactly once: with the object of rdf:resource or rdf:nodeID as  *)
(* subject at the open, with the subject of the first child node element   *)
(* when it opens, else with a fresh blank node at the close, which is the  *)
(* object of the quad (s, p, o).                                           *)
(***************************************************************************)
PredicateQ == namedNode(<<"http://e/", "q">>)

C23_HasObject(tag) ==
  \/ HasAttribute(tag, QName("rdf", "resource"))
  \/ HasAttribute(tag, QName("rdf", "nodeID"))

\* The children of the element, in document order.
C23_Children(elements, e) ==
  SelectSeq([j \in 1..Len(elements) |-> j], LAMBDA j : elements[j].parent = e)

\* The subject the pair of the element is to have.
C23_Target(term, tag, children, elements) ==
  CASE HasAttribute(tag, QName("rdf", "resource")) ->
         term = namedNode(<<"http://b/", "o">>)
    [] HasAttribute(tag, QName("rdf", "nodeID")) ->
         term = blankNode(<<"n">>)
    [] children # << >> -> IsSubjectOf(term, elements[children[1]].tag)
    [] OTHER -> IsMinted(term)

\* e is the one element that carries ex:q, a property element.
C23_Pairs(e, document, pairs) ==
  IF \/ C23_HasObject(document.elements[e].tag)
     \/ C23_Children(document.elements, e) # << >>
     \/ \A f \in 1..Len(document.open) : document.open[f] # e
  THEN /\ Len(pairs) = 1
       /\ pairs[1].object = literal(<<"v">>, NullTerm, NULL)
       /\ C23_Target(pairs[1].subject, document.elements[e].tag,
                     C23_Children(document.elements, e), document.elements)
       /\ \E k \in 1..Len(parser.pushed) :
            /\ parser.pushed[k].predicate = PredicateT
            /\ parser.pushed[k].object = pairs[1].subject
  ELSE pairs = << >>

C23_PairsOnce ==
  ( /\ vocabulary = "deferred"
    /\ parser.errors = 0
    /\ Cardinality(Carrying(fed, QName("ex", "q"))) = 1
    /\ \A e \in Carrying(fed, QName("ex", "q")) :
         Document.elements[e].kind = "property" ) =>
    \A e \in Carrying(fed, QName("ex", "q")) :
      C23_Pairs(e, Document,
        SelectSeq(parser.pushed, LAMBDA q : q.predicate = PredicateQ))

\* The close of a property element for which a quad was emitted before.
C23_CloseSilent ==
  ( /\ Len(fed') = Len(fed) + 1
    /\ fed'[Len(fed')].type = "closetag"
    /\ parser.errors = 0
    /\ Document.elements[Document.open[Len(Document.open)]].kind = "property"
    /\ ~HasAttribute(Document.elements[Document.open[Len(Document.open)]].tag,
                     QName("rdf", "parseType"))
    /\ \/ C23_HasObject(Document.elements[Document.open[Len(Document.open)]].tag)
       \/ C23_Children(Document.elements,
                       Document.open[Len(Document.open)]) # << >> ) =>
    parser'.pushed = parser.pushed

C23_DeferredOnce == [] C23_PairsOnce /\ [][C23_CloseSilent]_vars

\* A property element with a property attribute, closed after two child node
\* elements: the first, rdf:about="s", has the pair.
C23_Witness ==
  /\ vocabulary = "deferred"
  /\ parser.errors = 0
  /\ Len(fed) = 6
  /\ HasAttribute(fed[2].tag, QName("ex", "q"))
  /\ fed[3].type = "opentag"
  /\ HasAttribute(fed[3].tag, QName("rdf", "about"))
  /\ fed[4].type = "closetag"
  /\ fed[5].type = "opentag"
  /\ fed[6].type = "closetag"
  /\ Cardinality({ k \in 1..Len(parser.pushed) :
                     parser.pushed[k].predicate = PredicateQ }) = 1

(***************************************************************************)
(* C24: the quads emitted at the open of a node element below the root     *)
(* come in this order: the type quad of a typed element; the quads that    *)
(* link it, either the collection link and rdf:first, or the quad of the   *)
(* parent's (subject, predicate) followed by the parent's pending pairs;   *)
(* the quads of its shorthand attributes in the order the attributes are   *)
(* written; and last the quad of an rdf:type attribute, whose object is a  *)
(* named node and which is never reified.                                  *)
(***************************************************************************)
C24_IsShorthand(attribute) ==
  attribute.key \notin { QName("rdf", "ID"), QName("rdf", "type"),
                         QName("rdf", "about"), QName("rdf", "nodeID") }

C24_Predicate(key) ==
  namedNode((IF key[1] = "rdf" THEN RDF ELSE <<"http://e/">>) \o <<key[3]>>)

C24_Type(x, tag) ==
  IF tag.name = QName("rdf", "Description") THEN << >>
  ELSE << Quad(x, rdf("type"), namedNode(<<"http://e/", tag.name[3]>>)) >>

\* parent is the frame of the parent before the open, cell the blank node
\* the parent's collection ends with after it.
C24_Link(x, parent, cell) ==
  IF parent.childrenCollectionSubject # NullTerm
  THEN << Quad(parent.childrenCollectionSubject,
               parent.childrenCollectionPredicate, cell),
          Quad(cell, rdf("first"), x) >>
  ELSE << Quad(parent.subject, parent.predicate, x) >> \o
       [k \in 1..Len(parent.predicateSubPredicates) |->
          Quad(x, parent.predicateSubPredicates[k],
               parent.predicateSubObjects[k])]

C24_Shorthands(x, attributes) ==
  [k \in 1..Len(attributes) |->
     Quad(x, C24_Predicate(attributes[k].key),
          literal(attributes[k].value, NullTerm, NULL))]

C24_ExplicitType(x, tag) ==
  IF HasAttribute(tag, QName("rdf", "type"))
  THEN << Quad(x, rdf("type"),
               namedNode(AttributeValue(tag, QName("rdf", "type")))) >>
  ELSE << >>

C24_Emitted(emitted, x, tag, parent, cell) ==
  /\ NotReifications(emitted) =
       C24_Type(x, tag) \o C24_Link(x, parent, cell) \o
       C24_Shorthands(x, SelectSeq(tag.attributes, C24_IsShorthand)) \o
       C24_ExplicitType(x, tag)
  /\ HasAttribute(tag, QName("rdf", "type")) =>
       << emitted[Len(emitted)] >> = C24_ExplicitType(x, tag)

C24_OpenOrder ==
  [][ ( /\ vocabulary = "node"
        /\ Opens("node")
        /\ Depth(parser) > 0
        /\ parser.errors = 0
        /\ parser'.errors = 0 ) =>
      C24_Emitted(SubSeq(parser'.pushed, Len(parser.pushed) + 1,
                         Len(parser'.pushed)),
                  Top(parser').subject, Opening, Top(parser),
                  Parent(parser').childrenCollectionSubject) ]_vars

\* A typed node element with a shorthand attribute and rdf:type, in this
\* order, below a property element: four quads.
C24_Witness ==
  /\ vocabulary = "node"
  /\ parser.errors = 0
  /\ Len(fed) = 3
  /\ LastEvent.type = "opentag"
  /\ LastEvent.tag.name = QName("ex", "T")
  /\ Len(LastEvent.tag.attributes) = 2
  /\ LastEvent.tag.attributes[1].key = QName("ex", "q")
  /\ LastEvent.tag.attributes[2].key = QName("rdf", "type")
  /\ Len(parser.pushed) >= 4
  /\ parser.pushed[Len(parser.pushed)] =
       Quad(Top(parser).subject, rdf("type"), namedNode(<<"http://e/", "C">>))
  /\ parser.pushed[Len(parser.pushed) - 1].predicate = PredicateQ

(***************************************************************************)
(* C25: a property element without rdf:parseType, child element,           *)
(* rdf:resource, rdf:nodeID or property attribute emits at its close one   *)
(* quad, the quads of its reification apart: its object is a literal whose *)
(* lexical form is the content of the last text event received since its   *)
(* open, the empty string when there was none.  A property element without *)
(* rdf:parseType that had a child element emits no literal at its close,   *)
(* whatever text it received.  A property attribute is an attribute that   *)
(* the element's handler reads as one: here every attribute but rdf:ID,    *)
(* rdf:datatype and those with the prefix xml or xmlns.                    *)
(***************************************************************************)
C25_Plain(tag) ==
  \A k \in 1..Len(tag.attributes) :
    \/ tag.attributes[k].key \in { QName("rdf", "ID"), QName("rdf", "datatype") }
    \/ /\ Len(tag.attributes[k].key) = 3
       /\ tag.attributes[k].key[1] \in { "xml", "xmlns" }

\* The quads but those of a reification, whatever statement they reify.
C25_Asserted(quads) ==
  SelectSeq(quads, LAMBDA q :
    ~ \/ q.predicate \in { rdf("subject"), rdf("predicate"), rdf("object") }
      \/ q.predicate = rdf("type") /\ q.object = rdf("Statement"))

\* The content of the last text event after the open tag at position opened.
C25_LastText(events, opened) ==
  IF opened = Len(events) THEN EMPTY ELSE events[Len(events)].text

C25_Literal(emitted, activeTag, text) ==
  /\ Len(emitted) = 1
  /\ emitted[1].subject = activeTag.subject
  /\ emitted[1].predicate = activeTag.predicate
  /\ emitted[1].object.termType = "Literal"
  /\ emitted[1].object.value = text

\* element closes; emitted are the quads its close adds.
C25_Close(element, children, emitted) ==
  (element.kind = "property"
   /\ ~HasAttribute(element.tag, QName("rdf", "parseType"))) =>
    /\ (children = << >> /\ C25_Plain(element.tag)) =>
         C25_Literal(C25_Asserted(emitted), Top(parser),
           C25_LastText(fed, OpenIndexes(fed, 1, << >>)[Depth(parser)]))
    /\ children # << >> =>
         \A k \in 1..Len(emitted) : emitted[k].object.termType # "Literal"

C26_IsResource(tag) ==
  HasAttributeValue(tag, QName("rdf", "parseType"), <<"Resource">>)

C26_Open(emitted, parent, activeTag, fresh) ==
  /\ Len(emitted) = 1
  /\ emitted[1].subject = parent.subject
  /\ emitted[1].object = activeTag.subject
  /\ IsMinted(activeTag.subject)
  /\ activeTag.subject.id >= fresh

\* The element on top of the stack carries rdf:parseType="Resource".
C26_Inside(document) ==
  /\ document.open # << >>
  /\ document.elements[document.open[Len(document.open)]].kind = "property"
  /\ C26_IsResource(document.elements[document.open[Len(document.open)]].tag)

C26_Step ==
  (parser.errors = 0 /\ parser'.errors = 0 /\ Len(fed') = Len(fed) + 1) =>
    /\ (Opens("property") /\ C26_IsResource(Opening)) =>
         C26_Open(C25_Asserted(SubSeq(parser'.pushed, Len(parser.pushed) + 1,
                                      Len(parser'.pushed))),
                  Top(parser), Top(parser'), parser.blankNodeCounter)
    /\ (C26_Inside(Document) /\ fed'[Len(fed')].type = "text") =>
         parser' = parser
    /\ (C26_Inside(Document) /\ fed'[Len(fed')].type = "closetag") =>
         parser'.pushed = parser.pushed

C26_ParseTypeResource == [][C26_Step]_vars

(***************************************************************************)
(* C27: the literal of a property element's text, and the literals of a    *)
(* node element's shorthand attributes, have as language tag the value, in *)
(* lower case, of the nearest xml:lang on the element itself or on an      *)
(* ancestor, and none when that value is empty or no xml:lang is in scope; *)
(* the literal of a property element that carries rdf:datatype has that    *)
(* datatype and no language tag.  The xml:lang of an element so never      *)
(* reaches the literals of its parent or of its later siblings.            *)
(***************************************************************************)
RECURSIVE C27_Nearest(_, _)
\* The language in scope in the f-th of the open elements.
C27_Nearest(open, f) ==
  IF f = 0 THEN NULL
  ELSE IF HasAttribute(open[f], QName("xml", "lang"))
       THEN IF AttributeValue(open[f], QName("xml", "lang")) = EMPTY THEN NULL
            ELSE toLowerCase(AttributeValue(open[f], QName("xml", "lang")))
       ELSE C27_Nearest(open, f - 1)

\* The literal of the text of the property element that closes.
C27_Text(object, tag, language) ==
  /\ object.termType = "Literal"
  /\ IF HasAttribute(tag, QName("rdf", "datatype"))
     THEN object.language = NULL /\ object.datatype # NULL
     ELSE object.language = language /\ object.datatype = NULL

C27_Close(element, children, emitted, open) ==
  ( /\ element.kind = "property"
    /\ ~HasAttribute(element.tag, QName("rdf", "parseType"))
    /\ children = << >>
    /\ C25_Plain(element.tag) ) =>
    /\ emitted # << >>
    /\ C27_Text(emitted[1].object, element.tag, C27_Nearest(open, Len(open)))

\* The literals of the shorthand attribute ex:q of the node element opened.
C27_Open(emitted, open) ==
  \A k \in 1..Len(emitted) :
    emitted[k].predicate = PredicateQ =>
      emitted[k].object =
        literal(<<"v">>, NullTerm, C27_Nearest(open, Len(open)))

\* The quads with the predicate ex:q that the open emits are those of the
\* element's own shorthand attribute: its parent has no pending pair.
C27_OwnShorthand(open) ==
  open # << >> => ~HasAttribute(open[Len(open)], QName("ex", "q"))

C27_Step ==
  ( /\ vocabulary = "scope"
    /\ parser.errors = 0
    /\ parser'.errors = 0
    /\ Len(fed') = Len(fed) + 1 ) =>
    /\ fed'[Len(fed')].type = "closetag" =>
         C27_Close(Document.elements[Document.open[Len(Document.open)]],
                   C23_Children(Document.elements,
                                Document.open[Len(Document.open)]),
                   SubSeq(parser'.pushed, Len(parser.pushed) + 1,
                          Len(parser'.pushed)),
                   OpenElements(fed, 1, << >>))
    /\ (Opens("node") /\ C27_OwnShorthand(OpenElements(fed, 1, << >>))) =>
         C27_Open(SubSeq(parser'.pushed, Len(parser.pushed) + 1,
                         Len(parser'.pushed)),
                  OpenElements(fed', 1, << >>))

C27_LanguageInScope == [][C27_Step]_vars

\* Below a root with xml:lang="EN", a first property element with
\* xml:lang="" closed, then a second: its literal has the language en.
C27_Witness ==
  /\ vocabulary = "scope"
  /\ parser.errors = 0
  /\ Len(fed) = 5
  /\ HasAttributeValue(fed[1].tag, QName("xml", "lang"), <<"EN">>)
  /\ fed[2].type = "opentag"
  /\ HasAttributeValue(fed[2].tag, QName("xml", "lang"), EMPTY)
  /\ fed[3].type = "closetag"
  /\ fed[4].type = "opentag"
  /\ fed[5].type = "closetag"
  /\ Len(parser.pushed) = 3
  /\ parser.pushed[2].object = literal(EMPTY, NullTerm, NULL)
  /\ parser.pushed[3].object = literal(EMPTY, NullTerm, <<"en">>)

(***************************************************************************)
(* C28: in a run without an error the depth of the stack is the number of  *)
(* elements open: every open tag pushes one frame, every close tag pops    *)
(* the frame on top, which the matching open tag pushed, and leaves the    *)
(* frames below as they are; a text or doctype event changes neither the   *)
(* depth nor the quads emitted; the stack is empty once the root is        *)
(* closed.                                                                 *)
(***************************************************************************)
C28_Depth ==
  parser.errors = 0 =>
    /\ Depth(parser) = OpenTags(fed)
    /\ Ended => parser.activeTagStack = << >>

C28_Step ==
  (parser.errors = 0 /\ parser'.errors = 0 /\ Len(fed') = Len(fed) + 1) =>
    CASE fed'[Len(fed')].type = "opentag" ->
           Depth(parser') = Depth(parser) + 1
      [] fed'[Len(fed')].type = "closetag" ->
           parser'.activeTagStack =
             SubSeq(parser.activeTagStack, 1, Depth(parser) - 1)
      [] OTHER ->
           /\ Depth(parser') = Depth(parser)
           /\ parser'.pushed = parser.pushed

C28_StackDiscipline == [] C28_Depth /\ [][C28_Step]_vars

\* An XML literal with an element and a text in it, closed: four opens and
\* closes below the root, which is still open.
C28_Witness ==
  /\ vocabulary = "literal"
  /\ parser.errors = 0
  /\ Len(fed) = 6
  /\ HasAttributeValue(fed[2].tag, QName("rdf", "parseType"), <<"Literal">>)
  /\ fed[3].type = "opentag"
  /\ fed[4].type = "text"
  /\ fed[5].type = "closetag"
  /\ fed[6].type = "closetag"
  /\ Depth(parser) = 1
  /\ parser.pushed # << >>

(***************************************************************************)
(* C29: the attributes of the root node element are read as those of a     *)
(* nested node element: once the root is open without an error, its        *)
(* subject is the one its rdf:about, rdf:ID or rdf:nodeID names, and the    *)
(* quads of its shorthand attribute ex:q and of its rdf:type attribute     *)
(* have been emitted.                                                      *)
(***************************************************************************)
\* The frame on top is that of the node element tag, just opened.
C29_Read(tag, activeTag) ==
  /\ (Cardinality(SubjectAttributes(tag)) = 1
      /\ ~HasAttribute(tag, QName("xml", "base"))) =>
       IsSubjectOf(activeTag.subject, tag)
  /\ HasAttribute(tag, QName("ex", "q")) =>
       \E k \in 1..Len(parser.pushed) :
         /\ parser.pushed[k].subject = activeTag.subject
         /\ parser.pushed[k].predicate = PredicateQ
         /\ parser.pushed[k].object.value = <<"v">>
  /\ HasAttribute(tag, QName("rdf", "type")) =>
       \E k \in 1..Len(parser.pushed) :
         parser.pushed[k] =
           Quad(activeTag.subject, rdf("type"), namedNode(<<"http://e/", "C">>))

C29_RootAttributesRead ==
  (Len(fed) = 1 /\ LastEvent.type = "opentag" /\ parser.errors = 0) =>
    C29_Read(LastEvent.tag, Top(parser))

(***************************************************************************)
(* C30: the open of a node element below the root emits the same quads,    *)
(* reports the same error and gives the frame the same subject wherever    *)
(* xml:base and xml:lang stand among the attributes, the order of the      *)
(* other attributes kept: the subject of rdf:about is resolved against the *)
(* element's own xml:base and the shorthand literals have the element's    *)
(* own xml:lang, written before or after.                                  *)
(***************************************************************************)
C30_IsScope(attribute) ==
  attribute.key \in { QName("xml", "base"), QName("xml", "lang") }

C30_IsOther(attribute) == ~C30_IsScope(attribute)

\* The attribute lists that differ in the places of xml:base and xml:lang.
C30_Moved(attributes) ==
  { moved \in { [k \in 1..Len(attributes) |-> attributes[p[k]]] :
                  p \in Permutations(1..Len(attributes)) } :
      SelectSeq(moved, C30_IsOther) = SelectSeq(attributes, C30_IsOther) }

C30_Same(this, other) ==
  /\ this.pushed = other.pushed
  /\ this.errors = other.errors
  /\ this.errors = 0 => Top(this).subject = Top(other).subject

\* The subject and the literal that the element's own xml:base="http://c/"
\* and xml:lang="EN" give; emitted are the quads of the open, and the parent
\* has no pending pair of ex:q.
C30_Own(this, tag, emitted) ==
  /\ ( /\ HasAttributeValue(tag, QName("xml", "base"), <<"http://c/">>)
       /\ HasAttribute(tag, QName("rdf", "about")) ) =>
       Top(this).subject = namedNode(<<"http://c/", "s">>)
  /\ ( /\ HasAttributeValue(tag, QName("xml", "lang"), <<"EN">>)
       /\ HasAttribute(tag, QName("ex", "q")) ) =>
       /\ \E k \in 1..Len(emitted) : emitted[k].predicate = PredicateQ
       /\ \A k \in 1..Len(emitted) :
            emitted[k].predicate = PredicateQ =>
              emitted[k].object = literal(<<"v">>, NullTerm, <<"en">>)

C30_Step ==
  (vocabulary = "scope" /\ Opens("node") /\ Depth(parser) > 0
   /\ parser.errors = 0) =>
    /\ \A moved \in C30_Moved(Opening.attributes) :
         C30_Same(parser', Transform(parser,
                    Handled("node", Tag(Opening.name, moved))))
    /\ (parser'.errors = 0 /\ C27_OwnShorthand(OpenElements(fed, 1, << >>))) =>
         C30_Own(parser', Opening,
                 SubSeq(parser'.pushed, Len(parser.pushed) + 1,
                        Len(parser'.pushed)))

C30_ScopeOrderIndependent == [][C30_Step]_vars

\* A node element below the root with rdf:about before xml:base: its subject
\* is resolved against the base written after it.
C30_Witness ==
  /\ vocabulary = "scope"
  /\ parser.errors = 0
  /\ Len(fed) = 3
  /\ LastEvent.type = "opentag"
  /\ Len(LastEvent.tag.attributes) = 2
  /\ LastEvent.tag.attributes[1].key = QName("rdf", "about")
  /\ LastEvent.tag.attributes[2].key = QName("xml", "base")
  /\ Top(parser).subject = namedNode(<<"http://c/", "s">>)
  /\ parser.baseIRI = <<"http://b/">>

(***************************************************************************)
(* C31: a namespace declaration is never read as a property attribute.  A  *)
(* property element that carries rdf:datatype and, before or after it,     *)
(* declarations xmlns:p or xmlns and nothing else opens without an error   *)
(* and, closed without a child element, emits one quad, whose object is a  *)
(* literal with the datatype; and no quad has a predicate made of the name *)
(* of a declaration, xmlns or p, on node and property elements alike.      *)
(***************************************************************************)
C31_IsDeclaration(attribute) ==
  \/ attribute.key = <<"xmlns">>
  \/ Len(attribute.key) = 3 /\ attribute.key[1] = "xmlns"

\* The element carries rdf:datatype, a declaration, and nothing else.
C31_Datatyped(tag) ==
  /\ HasAttribute(tag, QName("rdf", "datatype"))
  /\ \E k \in 1..Len(tag.attributes) : C31_IsDeclaration(tag.attributes[k])
  /\ \A k \in 1..Len(tag.attributes) :
       \/ tag.attributes[k].key = QName("rdf", "datatype")
       \/ C31_IsDeclaration(tag.attributes[k])

C31_Literal(emitted) ==
  /\ Len(emitted) = 1
  /\ emitted[1].object.termType = "Literal"
  /\ emitted[1].object.datatype = <<"http://b/", "t">>

C31_Step ==
  (vocabulary = "declarations" /\ parser.errors = 0
   /\ Len(fed') = Len(fed) + 1) =>
    /\ (Opens("property") /\ C31_Datatyped(Opening)) => parser'.errors = 0
    /\ ( /\ fed'[Len(fed')].type = "closetag"
         /\ Document.elements[Document.open[Len(Document.open)]].kind = "property"
         /\ C31_Datatyped(Document.elements[Document.open[Len(Document.open)]].tag)
         /\ C23_Children(Document.elements,
                         Document.open[Len(Document.open)]) = << >> ) =>
         C31_Literal(SubSeq(parser'.pushed, Len(parser.pushed) + 1,
                            Len(parser'.pushed)))

\* No quad has a predicate named after a declaration.
C31_NoPredicate ==
  vocabulary = "declarations" =>
    \A k \in 1..Len(parser.pushed) :
      parser.pushed[k].predicate.value[Len(parser.pushed[k].predicate.value)]
        \notin { "xmlns", "p" }

C31_DeclarationsIgnored == [] C31_NoPredicate /\ [][C31_Step]_vars

(***************************************************************************)
(* C32: a quad (s, p, o) emitted with a statement id r is followed at once *)
(* by (r, rdf:type, rdf:Statement), (r, rdf:subject, s),                   *)
(* (r, rdf:predicate, p), (r, rdf:object, o), in this order and in the     *)
(* graph of the quad, and a quad emitted without a statement id by none of *)
(* them.  In the output: every quad of a reification stands in such a      *)
(* group of four behind the quad it reifies; and the quad that the close   *)
(* of a property element emits with the reifiedStatementId of its frame    *)
(* has the group of that id behind it, and no group when the frame has no  *)
(* id.                                                                     *)
(***************************************************************************)
\* The quad has the form of a quad of a reification.
C32_Reifies(q) ==
  \/ q.predicate \in { rdf("subject"), rdf("predicate"), rdf("object") }
  \/ q.predicate = rdf("type") /\ q.object = rdf("Statement")

\* The four quads that follow the asserted quad q emitted with the id r.
C32_Group(q, r) ==
  << quad(r, rdf("type"), rdf("Statement"), q.graph),
     quad(r, rdf("subject"), q.subject, q.graph),
     quad(r, rdf("predicate"), q.predicate, q.graph),
     quad(r, rdf("object"), q.object, q.graph) >>

\* quads[k] is an asserted quad with the group of an id behind it.
C32_Reified(quads, k) ==
  /\ k >= 1
  /\ k + 4 <= Len(quads)
  /\ ~C32_Reifies(quads[k])
  /\ SubSeq(quads, k + 1, k + 4) = C32_Group(quads[k], quads[k + 1].subject)

C32_Grouped(quads) ==
  \A j \in 1..Len(quads) :
    C32_Reifies(quads[j]) =>
      \E k \in (j - 4)..(j - 1) : C32_Reified(quads, k)

\* emitted are the quads of the close of a frame with the statement id r.
C32_Close(emitted, r) ==
  emitted # << >> =>
    IF r # NullTerm
    THEN /\ Len(emitted) >= 5
         /\ ~C32_Reifies(emitted[1])
         /\ SubSeq(emitted, 2, 5) = C32_Group(emitted[1], r)
         /\ \A j \in 6..Len(emitted) : ~C32_Reifies(emitted[j])
    ELSE \A j \in 1..Len(emitted) : ~C32_Reifies(emitted[j])

C32_Step ==
  ( /\ Len(fed') = Len(fed) + 1
    /\ fed'[Len(fed')].type = "closetag"
    /\ parser.errors = 0 ) =>
    C32_Close(SubSeq(parser'.pushed, Len(parser.pushed) + 1,
                     Len(parser'.pushed)),
              Top(parser).reifiedStatementId)

C32_InGroups == C32_Grouped(parser.pushed)

C32_ReificationFollows == [] C32_InGroups /\ [][C32_Step]_vars

\* A property element with rdf:ID="a" and a text, closed: its literal quad
\* and the four quads of the statement a are the last five of the output.
C32_Witness ==
  /\ vocabulary = "reification"
  /\ parser.errors = 0
  /\ Len(fed) = 4
  /\ HasAttribute(fed[2].tag, QName("rdf", "ID"))
  /\ fed[3].type = "text"
  /\ fed[4].type = "closetag"
  /\ Len(parser.pushed) >= 5
  /\ parser.pushed[Len(parser.pushed) - 4].object.termType = "Literal"
  /\ parser.pushed[Len(parser.pushed)] =
       Quad(StatementA, rdf("object"), parser.pushed[Len(parser.pushed) - 4].object)

====
